---------------------------- MODULE Spec2Model ----------------------------
(***************************************************************************)
(* Sequencing-saturation scripts of masseq_data_processing:                *)
(*   sc_scripts/Isoseq_corrected_bam_umi_counting_and_saturation_          *)
(*       vComprehensive.py  and  ..._VLOGdatatransform.py                  *)
(* main() is modelled as a sequential state machine: the BAM fetch loop,   *)
(* the TSV writer, the real-cell filter and the saturation metrics.        *)
(*                                                                         *)
(* Python floats are modelled as exact rationals <<num, den>> in lowest    *)
(* terms; den = 0 stands for inf, -inf and nan.  Rounding is modelled only *)
(* in the floating-point summary (SpecMeans).  A Python dict is a sequence *)
(* of entries in insertion order.  UMI strings are abstracted to numbers.  *)
(* sc_scripts/filter_LR_reads_using_SR_CBs.py is modelled by SpecFilter.   *)
(***************************************************************************)
EXTENDS Integers, Sequences, FiniteSets, Bags, TLC

VARIABLES
    script,                \* which of the two scripts runs
    pc,                    \* position in main()
    fetched,               \* history: bag of the records bam.fetch() has yielded
    read,                  \* loop variable `read`
    exception,             \* exception that left main(), "none" while running
    read_counts,           \* defaultdict(lambda: defaultdict(int))
    tsv,                   \* rows written to tsv_output
    total_reads_all,
    bcstats_df,            \* rows (barcode, RealCell label) of the bcstats file
    real_barcodes,
    it,                    \* position of the metric loop in read_counts.items()
    reads_per_cell,
    saturation_indices,
    unique_umis_per_cell,
    mean_reads,
    mean_saturation,
    global_total_reads,
    global_total_unique,
    global_saturation,
    filtered_cell_count,
    fraction_filtered,
    stdout,                \* lines printed so far
    x_data,
    y_data,
    p0,
    Vmax,
    Km,
    sigma,
    r_squared,
    x_fit,
    y_fit,
    x_coef_indices,        \* 0-based indices, as numpy gives them
    cutoff_index,
    x_fit_trim,
    y_fit_trim,
    x_max_val,             \* VLOGdatatransform only
    extra_per_cell,
    extra_reads_filtered,
    total_extra_reads_required,
    knee_x,
    plot_file,             \* the figure written by plt.savefig
    bound_upper,
    bound_lower,
    barcode_file,          \* filter script: lines of the barcode file
    sample_id,             \* filter script: --sample_id, <<>> when absent
    barcodes,
    in_bam,                \* history: the reads the loop has taken from in_bam
    out_bam,               \* the reads written to out_bam
    bam_total_reads,       \* total_reads of filter_bam_by_barcode
    retained_reads,
    found_barcodes,
    barcode_counts,        \* defaultdict(int)
    fraction_retained,
    max_cb,
    min_cb,
    avg_reads_per_cb,
    median_reads_per_cb,
    summary_lines,
    barcode_plot,          \* the figure of plot_top_barcodes
    barcodes_tsv,          \* the barcode-count table
    report_file

vars == <<script, pc, fetched, read, exception, read_counts, tsv, total_reads_all,
          bcstats_df, real_barcodes, it, reads_per_cell, saturation_indices,
          unique_umis_per_cell, mean_reads, mean_saturation, global_total_reads,
          global_total_unique, global_saturation, filtered_cell_count,
          fraction_filtered, stdout, x_data, y_data, p0, Vmax, Km, sigma, r_squared,
          x_fit, y_fit, x_coef_indices, cutoff_index, x_fit_trim, y_fit_trim,
          x_max_val, extra_per_cell, extra_reads_filtered,
          total_extra_reads_required, knee_x, plot_file, bound_upper, bound_lower,
          barcode_file, sample_id, barcodes, in_bam, out_bam, bam_total_reads,
          retained_reads, found_barcodes, barcode_counts, fraction_retained, max_cb,
          min_cb, avg_reads_per_cb, median_reads_per_cb, summary_lines, barcode_plot,
          barcodes_tsv, report_file>>

\* the names of the loop of filter_bam_by_barcode
loop_vars == <<in_bam, out_bam, bam_total_reads, retained_reads, found_barcodes,
               barcode_counts>>

\* the statistics it computes after the loop
stats_vars == <<fraction_retained, max_cb, min_cb, avg_reads_per_cb, median_reads_per_cb>>

\* the names of filter_LR_reads_using_SR_CBs.py
filter_vars == <<barcode_file, sample_id, barcodes, loop_vars, stats_vars, summary_lines,
                 barcode_plot, barcodes_tsv, report_file>>

\* the names bound by part 3 of main()
fit_vars == <<stdout, x_data, y_data, p0, Vmax, Km, sigma, r_squared, x_fit, y_fit,
              x_coef_indices, cutoff_index, x_fit_trim, y_fit_trim, x_max_val,
              extra_per_cell, extra_reads_filtered, total_extra_reads_required,
              knee_x, plot_file, bound_upper, bound_lower>>

---------------------------------------------------------------------------
(* Bounds and input domains *)

\* longest input stream explored
MaxReads == 3

Scripts == {"vComprehensive", "VLOGdatatransform"}

Barcodes == {"b1", "b2"}

Umis == {1, 2}

\* A record is the function from the tags it carries to their values.
Reads ==
    {[CB |-> b, XM |-> u] : b \in Barcodes, u \in Umis}
        \cup {[CB |-> "b1"], [XM |-> 1], <<>>}

\* RealCell labels occurring in a bcstats file
Labels == {"cell", "Cell"}

\* value of a Python name that is not bound yet
Unbound == [unbound |-> TRUE]

---------------------------------------------------------------------------
(* Exact rational arithmetic standing in for Python floats *)

RECURSIVE GCD(_, _)
GCD(a, b) == IF b = 0 THEN a ELSE GCD(b, a % b)

Abs(n) == IF n < 0 THEN -n ELSE n

\* n/d in lowest terms for d > 0; n/0 is inf, -inf or nan by the sign of n
Rat(n, d) ==
    IF d = 0 THEN <<(IF n > 0 THEN 1 ELSE IF n < 0 THEN -1 ELSE 0), 0>>
    ELSE LET g == GCD(Abs(n), d) IN <<n \div g, d \div g>>

RInt(n) == <<n, 1>>

\* x + y and x - y over the least common denominator
RAdd(x, y) ==
    LET g == IF x[2] = 0 \/ y[2] = 0 THEN 1 ELSE GCD(x[2], y[2])
    IN Rat(x[1] * (y[2] \div g) + y[1] * (x[2] \div g), (x[2] \div g) * y[2])

RSub(x, y) ==
    LET g == IF x[2] = 0 \/ y[2] = 0 THEN 1 ELSE GCD(x[2], y[2])
    IN Rat(x[1] * (y[2] \div g) - y[1] * (x[2] \div g), (x[2] \div g) * y[2])

\* x / k for an integer k > 0
RDivInt(x, k) == Rat(x[1], x[2] * k)

\* the floats that are no numbers: den = 0
Inf == <<1, 0>>

NaN == <<0, 0>>

IsFinite(x) == x[2] # 0

RMul(x, y) == Rat(x[1] * y[1], x[2] * y[2])

\* x / y of two finite floats, as numpy divides: x/0 is inf, -inf or nan
RDiv(x, y) ==
    IF x = NaN \/ y = NaN THEN NaN
    ELSE IF y[1] = 0
    THEN (IF x[1] > 0 THEN Inf ELSE IF x[1] < 0 THEN <<-1, 0>> ELSE NaN)
    ELSE IF y[1] > 0 THEN Rat(x[1] * y[2], x[2] * y[1])
    ELSE Rat(-(x[1] * y[2]), x[2] * (-y[1]))

\* x >= y of two finite floats
RGe(x, y) == x[1] * y[2] >= y[1] * x[2]

\* faulty variant: the difference itself, negative or not
RMax0_signed(x) == x

\* max(0, x) of a finite float
RMax0(x) == IF x[1] > 0 THEN x ELSE <<0, 1>>

\* np.sqrt of a float that is a perfect square, or inf
RSqrt(x) ==
    IF ~IsFinite(x) THEN x
    ELSE <<CHOOSE r \in 0..x[1] : r * r = x[1], CHOOSE r \in 1..x[2] : r * r = x[2]>>

---------------------------------------------------------------------------
(* Python dict and list helpers *)

\* sum(xs) of a list of integers (addition is associative: summed by halves)
RECURSIVE SumRange(_, _, _)
SumRange(xs, lo, hi) ==
    IF lo > hi THEN 0
    ELSE IF lo = hi THEN xs[lo]
    ELSE LET m == (lo + hi) \div 2
         IN SumRange(xs, lo, m) + SumRange(xs, m + 1, hi)

sum(xs) == SumRange(xs, 1, Len(xs))

\* sum(xs) of a list of floats
RECURSIVE RSumRange(_, _, _)
RSumRange(xs, lo, hi) ==
    IF lo > hi THEN RInt(0)
    ELSE IF lo = hi THEN xs[lo]
    ELSE LET m == (lo + hi) \div 2
         IN RAdd(RSumRange(xs, lo, m), RSumRange(xs, m + 1, hi))

RSum(xs) == RSumRange(xs, 1, Len(xs))

\* umi_dict.values()
values(umi_dict) == [i \in 1..Len(umi_dict) |-> umi_dict[i].count]

\* keys of read_counts
Cells(rc) == {rc[i].cell : i \in 1..Len(rc)}

\* keys of one umi_dict
UmiKeys(umi_dict) == {umi_dict[i].umi : i \in 1..Len(umi_dict)}

\* read_counts[cell] of a present key
UmiDictOf(rc, cell) == rc[CHOOSE i \in 1..Len(rc) : rc[i].cell = cell].umis

\* the stored count of (cell, umi), 0 when there is no such entry
CountOf(rc, cell, umi) ==
    IF cell \notin Cells(rc) THEN 0
    ELSE LET d == UmiDictOf(rc, cell)
         IN IF umi \notin UmiKeys(d) THEN 0
            ELSE d[CHOOSE j \in 1..Len(d) : d[j].umi = umi].count

\* (cell, umi) pairs that own an entry
Pairs(rc) ==
    UNION {{<<rc[i].cell, rc[i].umis[j].umi>> : j \in 1..Len(rc[i].umis)} :
               i \in 1..Len(rc)}

---------------------------------------------------------------------------
(* Part 1: the tally (read_counts) *)

\* read_counts[cell_barcode]: a defaultdict lookup inserts a missing key
\* with an empty umi dict, at the end of the insertion order
outer_getitem(rc, cell) ==
    IF cell \in Cells(rc) THEN rc ELSE Append(rc, [cell |-> cell, umis |-> <<>>])

\* faulty variant: only a run of the same UMI is counted; a UMI that is
\* present but is not the last key of its cell is left as it is
inner_increment_adjacent(umi_dict, umi) ==
    IF umi \notin UmiKeys(umi_dict)
    THEN Append(umi_dict, [umi |-> umi, count |-> 1])
    ELSE [j \in 1..Len(umi_dict) |->
             IF j = Len(umi_dict) /\ umi_dict[j].umi = umi
             THEN [umi_dict[j] EXCEPT !.count = @ + 1]
             ELSE umi_dict[j]]

\* faulty variant: "= 1" in place of "+= 1"
inner_increment_assign(umi_dict, umi) ==
    LET d == IF umi \in UmiKeys(umi_dict) THEN umi_dict
             ELSE Append(umi_dict, [umi |-> umi, count |-> 0])
    IN [j \in 1..Len(d) |->
            IF d[j].umi = umi THEN [d[j] EXCEPT !.count = 1] ELSE d[j]]

\* umi_dict[umi] += 1 on a defaultdict(int): a missing key starts at 0
inner_increment(umi_dict, umi) ==
    LET d == IF umi \in UmiKeys(umi_dict) THEN umi_dict
             ELSE Append(umi_dict, [umi |-> umi, count |-> 0])
    IN [j \in 1..Len(d) |->
            IF d[j].umi = umi THEN [d[j] EXCEPT !.count = @ + 1] ELSE d[j]]

\* read_counts[cell_barcode][umi] += 1
increment(rc, cell, umi) ==
    LET r == outer_getitem(rc, cell)
    IN [i \in 1..Len(r) |->
            IF r[i].cell = cell
            THEN [r[i] EXCEPT !.umis = inner_increment(@, umi)]
            ELSE r[i]]

\* read.get_tag(tag) raises KeyError when the record does not carry the tag
raises_KeyError(rd, tag) == tag \notin DOMAIN rd

\* faulty variant: a record without XM is not skipped but tallied under a default UMI
tally_read_default_umi(rc, rd) ==
    IF raises_KeyError(rd, "CB") THEN rc
    ELSE increment(rc, rd.CB, IF raises_KeyError(rd, "XM") THEN 0 ELSE rd.XM)

\* faulty variant: read_counts[cell_barcode] is looked up before the XM tag is read,
\* so a record without XM leaves an empty umi dict behind
tally_read_touch_first(rc, rd) ==
    IF raises_KeyError(rd, "CB") THEN rc
    ELSE IF raises_KeyError(rd, "XM") THEN outer_getitem(rc, rd.CB)
    ELSE increment(rc, rd.CB, rd.XM)

\* body of the fetch loop: try / except KeyError: continue / increment
tally_read(rc, rd) ==
    IF raises_KeyError(rd, "CB") \/ raises_KeyError(rd, "XM")
    THEN rc
    ELSE increment(rc, rd.CB, rd.XM)

\* sum(umi_dict.values())
total_reads_of(umi_dict) == sum(values(umi_dict))

\* len(umi_dict)
unique_umis_of(umi_dict) == Len(umi_dict)

\* faulty variant: counts the distinct UMIs of each cell instead of its reads
sum_all_unique(rc) == sum([i \in 1..Len(rc) |-> unique_umis_of(rc[i].umis)])

\* sum(sum(umi_dict.values()) for umi_dict in read_counts.values())
sum_all_reads(rc) == sum([i \in 1..Len(rc) |-> total_reads_of(rc[i].umis)])

\* faulty variant: one row per cell, for its first UMI only
tsv_rows_first(rc, i) ==
    [k \in 1..(Len(rc) - i + 1) |->
        <<rc[i + k - 1].cell, rc[i + k - 1].umis[1].umi, rc[i + k - 1].umis[1].count>>]

\* rows of the TSV file: the header, then one row per entry in dict order
RECURSIVE tsv_rows(_, _)
tsv_rows(rc, i) ==
    IF i > Len(rc) THEN <<>>
    ELSE [j \in 1..Len(rc[i].umis) |->
              <<rc[i].cell, rc[i].umis[j].umi, rc[i].umis[j].count>>]
         \o tsv_rows(rc, i + 1)

\* nothing of part 3 is bound yet
FitUnbound ==
    /\ stdout = <<>>
    /\ x_data = Unbound
    /\ y_data = Unbound
    /\ p0 = Unbound
    /\ Vmax = Unbound
    /\ Km = Unbound
    /\ sigma = Unbound
    /\ r_squared = Unbound
    /\ x_fit = Unbound
    /\ y_fit = Unbound
    /\ x_coef_indices = Unbound
    /\ cutoff_index = Unbound
    /\ x_fit_trim = Unbound
    /\ y_fit_trim = Unbound
    /\ x_max_val = Unbound
    /\ extra_per_cell = Unbound
    /\ extra_reads_filtered = Unbound
    /\ total_extra_reads_required = Unbound
    /\ knee_x = Unbound
    /\ plot_file = Unbound
    /\ bound_upper = Unbound
    /\ bound_lower = Unbound

\* filter_LR_reads_using_SR_CBs.py is not running
FilterUnbound ==
    /\ barcode_file = Unbound
    /\ sample_id = Unbound
    /\ barcodes = Unbound
    /\ in_bam = Unbound
    /\ out_bam = Unbound
    /\ bam_total_reads = Unbound
    /\ retained_reads = Unbound
    /\ found_barcodes = Unbound
    /\ barcode_counts = Unbound
    /\ fraction_retained = Unbound
    /\ max_cb = Unbound
    /\ min_cb = Unbound
    /\ avg_reads_per_cb = Unbound
    /\ median_reads_per_cb = Unbound
    /\ summary_lines = Unbound
    /\ barcode_plot = Unbound
    /\ barcodes_tsv = Unbound
    /\ report_file = Unbound

Init ==
    /\ FitUnbound
    /\ FilterUnbound
    /\ script \in Scripts
    /\ pc = "fetch"
    /\ fetched = EmptyBag
    /\ read = Unbound
    /\ exception = "none"
    /\ read_counts = <<>>
    /\ tsv = Unbound
    /\ total_reads_all = Unbound
    /\ bcstats_df = Unbound
    /\ real_barcodes = Unbound
    /\ it = Unbound
    /\ reads_per_cell = Unbound
    /\ saturation_indices = Unbound
    /\ unique_umis_per_cell = Unbound
    /\ mean_reads = Unbound
    /\ mean_saturation = Unbound
    /\ global_total_reads = Unbound
    /\ global_total_unique = Unbound
    /\ global_saturation = Unbound
    /\ filtered_cell_count = Unbound
    /\ fraction_filtered = Unbound

metric_vars == <<bcstats_df, real_barcodes, it, reads_per_cell, saturation_indices,
                 unique_umis_per_cell>>

summary_vars == <<mean_reads, mean_saturation, global_total_reads, global_total_unique,
                  global_saturation, filtered_cell_count, fraction_filtered>>

\* one iteration of `for read in bam.fetch(until_eof=True)`
Fetch ==
    /\ pc = "fetch"
    /\ BagCardinality(fetched) < MaxReads
    /\ \E rd \in Reads :
          /\ read' = rd
          /\ fetched' = fetched (+) SetToBag({rd})
          /\ read_counts' = tally_read(read_counts, rd)
    /\ UNCHANGED <<filter_vars, fit_vars, script, pc, exception, tsv, total_reads_all, metric_vars, summary_vars>>

\* the stream is exhausted: the with-block is left
EndOfFile ==
    /\ pc = "fetch"
    /\ pc' = "write_tsv"
    /\ UNCHANGED <<filter_vars, fit_vars, script, fetched, read, exception, read_counts, tsv, total_reads_all,
                   metric_vars, summary_vars>>

\* the TSV writer
WriteTsv ==
    /\ pc = "write_tsv"
    /\ tsv' = <<<<"cell_barcode", "UMI", "Count">>>> \o tsv_rows(read_counts, 1)
    /\ pc' = IF script = "vComprehensive" THEN "sum_all" ELSE "read_bcstats"
    /\ UNCHANGED <<filter_vars, fit_vars, script, fetched, read, exception, read_counts, total_reads_all,
                   metric_vars, summary_vars>>

\* total_reads_all (vComprehensive only)
SumAll ==
    /\ pc = "sum_all"
    /\ total_reads_all' = sum_all_reads(read_counts)
    /\ pc' = "read_bcstats"
    /\ UNCHANGED <<filter_vars, fit_vars, script, fetched, read, exception, read_counts, tsv,
                   metric_vars, summary_vars>>

---------------------------------------------------------------------------
(* Part 2: real-cell filter and saturation metrics *)

\* barcodes a bcstats file may list
TableBarcodes == Barcodes \cup {"b3"}

\* bcstats files: sets of rows <<#BarcodeSequence, RealCell>>
Tables == SUBSET (TableBarcodes \X Labels)

\* faulty variant: the label is matched without regard to case
select_real_barcodes_anycase(df) ==
    {row[1] : row \in {r \in df : r[2] \in {"cell", "Cell"}}}

\* set(bcstats_df.loc[bcstats_df["RealCell"] == "cell", "#BarcodeSequence"])
select_real_barcodes(df) == {row[1] : row \in {r \in df : r[2] = "cell"}}

\* faulty variant: the fraction of unique reads, without the "1 -"
saturation_of_complement(unique_umis, total_reads) ==
    IF total_reads > 0 THEN Rat(unique_umis, total_reads) ELSE RInt(0)

\* faulty variant: integer (floor) division of unique_umis by total_reads
saturation_of_floordiv(unique_umis, total_reads) ==
    IF total_reads > 0
    THEN RSub(RInt(1), RInt(unique_umis \div total_reads))
    ELSE RInt(0)

\* faulty variant: the duplicate reads per unique UMI, total/unique - 1
saturation_of_inverted(unique_umis, total_reads) ==
    IF total_reads > 0
    THEN RSub(Rat(total_reads, unique_umis), RInt(1))
    ELSE RInt(0)

\* 1 - (unique_umis / total_reads) if total_reads > 0 else 0
saturation_of(unique_umis, total_reads) ==
    IF total_reads > 0
    THEN RSub(RInt(1), Rat(unique_umis, total_reads))
    ELSE RInt(0)

\* np.array(xs) of a list of integers, as floats
as_floats(xs) == [i \in 1..Len(xs) |-> RInt(xs[i])]

\* faulty variant: the mean truncated to an integer
np_mean_floor(xs) == LET m == RDivInt(RSum(xs), Len(xs)) IN RInt(m[1] \div m[2])

\* np.mean(xs) of a non-empty list
np_mean(xs) == RDivInt(RSum(xs), Len(xs))

\* mean_reads / mean_saturation: the mean, 0 for an empty list
mean_or_zero(xs) == IF xs # <<>> THEN np_mean(xs) ELSE RInt(0)

\* faulty variant: the fraction of unique reads, without the "1 -"
global_saturation_of_complement(total_unique, total_reads) ==
    IF total_reads > 0 THEN Rat(total_unique, total_reads) ELSE RInt(0)

\* 1 - (global_total_unique / global_total_reads) if global_total_reads > 0 else 0
global_saturation_of(total_unique, total_reads) ==
    IF total_reads > 0
    THEN RSub(RInt(1), Rat(total_unique, total_reads))
    ELSE RInt(0)

\* faulty variant: the quotient without its guard
fraction_of_unguarded(total_reads, all_reads) == Rat(total_reads, all_reads)

\* global_total_reads / total_reads_all if total_reads_all > 0 else 0
fraction_of(total_reads, all_reads) ==
    IF all_reads > 0 THEN Rat(total_reads, all_reads) ELSE RInt(0)

\* faulty variant: global saturation taken as the mean of the per-cell values
global_saturation_as_mean == mean_or_zero(saturation_indices)

\* global_total_unique, global_total_reads and global_saturation
global_saturation_value ==
    global_saturation_of(sum(unique_umis_per_cell), sum(reads_per_cell))

\* pd.read_csv, the RealCell filter and the three empty lists
ReadBcstats(tables) ==
    /\ pc = "read_bcstats"
    /\ \E df \in tables :
          /\ bcstats_df' = df
          /\ real_barcodes' = select_real_barcodes(df)
    /\ reads_per_cell' = <<>>
    /\ saturation_indices' = <<>>
    /\ unique_umis_per_cell' = <<>>
    /\ it' = 1
    /\ pc' = "metric_loop"
    /\ UNCHANGED <<filter_vars, fit_vars, script, fetched, read, exception, read_counts, tsv, total_reads_all,
                   summary_vars>>

\* faulty variant: a loop over real_barcodes that looks each one up in the
\* defaultdict, which makes an empty entry for a barcode it does not hold
MetricStep_lookup ==
    /\ pc = "metric_loop"
    /\ it <= Len(read_counts)
    /\ read_counts' =
           IF real_barcodes \subseteq Cells(read_counts) THEN read_counts
           ELSE Append(read_counts,
                       [cell |-> CHOOSE b \in real_barcodes : b \notin Cells(read_counts),
                        umis |-> <<>>])
    /\ it' = Len(read_counts') + 1
    /\ UNCHANGED <<filter_vars, fit_vars, script, pc, fetched, read, exception, tsv, total_reads_all,
                   bcstats_df, real_barcodes, unique_umis_per_cell, reads_per_cell,
                   saturation_indices, summary_vars>>

\* one iteration of `for cell, umi_dict in read_counts.items()`
MetricStep ==
    /\ pc = "metric_loop"
    /\ it <= Len(read_counts)
    /\ LET cell == read_counts[it].cell
           umi_dict == read_counts[it].umis
           total_reads == total_reads_of(umi_dict)
           unique_umis == unique_umis_of(umi_dict)
       IN IF cell \in real_barcodes
          THEN /\ unique_umis_per_cell' = Append(unique_umis_per_cell, unique_umis)
               /\ reads_per_cell' = Append(reads_per_cell, total_reads)
               /\ saturation_indices' =
                      Append(saturation_indices, saturation_of(unique_umis, total_reads))
          ELSE UNCHANGED <<unique_umis_per_cell, reads_per_cell, saturation_indices>>
    /\ it' = it + 1
    /\ UNCHANGED <<filter_vars, fit_vars, script, pc, fetched, read, exception, read_counts, tsv, total_reads_all,
                   bcstats_df, real_barcodes, summary_vars>>

\* the loop is over: means, global saturation, cell count, fraction
Summary ==
    /\ pc = "metric_loop"
    /\ it > Len(read_counts)
    /\ mean_reads' = mean_or_zero(as_floats(reads_per_cell))
    /\ mean_saturation' = mean_or_zero(saturation_indices)
    /\ global_total_reads' = sum(reads_per_cell)
    /\ global_total_unique' = sum(unique_umis_per_cell)
    /\ global_saturation' = global_saturation_value
    /\ filtered_cell_count' = Len(reads_per_cell)
    /\ fraction_filtered' =
           IF script = "vComprehensive"
           THEN fraction_of(sum(reads_per_cell), total_reads_all)
           ELSE fraction_filtered
    /\ pc' = "fit"
    /\ UNCHANGED <<filter_vars, fit_vars, script, fetched, read, exception, read_counts, tsv, total_reads_all,
                   metric_vars>>

Next ==
    \/ Fetch
    \/ EndOfFile
    \/ WriteTsv
    \/ SumAll
    \/ ReadBcstats(Tables)
    \/ MetricStep
    \/ Summary

Spec == Init /\ [][Next]_vars

---------------------------------------------------------------------------
(* The metric stage on given tallies: the stream has been consumed and     *)
(* left a tally drawn from ScenarioTallies.                                *)

\* (total_reads, unique_umis) of the cells of the concrete scenario
ScenarioPairs == <<<<1000, 900>>, <<2000, 1000>>, <<5000, 1100>>>>

ScenarioCells == <<"b1", "b2", "b3">>

\* a umi dict of `unique` UMIs holding `total` reads
umi_dict_with(total, unique) ==
    [j \in 1..unique |-> [umi |-> j, count |-> IF j = 1 THEN total - unique + 1 ELSE 1]]

\* the three cells, the scenario's pairs dealt to them in each rotation
ScenarioTallies ==
    {[i \in 1..3 |->
         LET pr == ScenarioPairs[((i + k) % 3) + 1]
         IN [cell |-> ScenarioCells[i], umis |-> umi_dict_with(pr[1], pr[2])]] :
       k \in 0..2}

\* bcstats files with at most one row per barcode
ScenarioTables ==
    {df \in Tables : \A r1, r2 \in df : r1[1] = r2[1] => r1 = r2}

\* the records a stream held to leave the tally rc (all of them tagged)
records_of(rc) ==
    [rd \in {[CB |-> pr[1], XM |-> pr[2]] : pr \in Pairs(rc)} |->
        LET d == UmiDictOf(rc, rd.CB)
        IN d[CHOOSE j \in 1..Len(d) : d[j].umi = rd.XM].count]

InitScenario ==
    /\ FitUnbound
    /\ FilterUnbound
    /\ script \in Scripts
    /\ pc = "write_tsv"
    /\ read_counts \in ScenarioTallies
    /\ fetched = records_of(read_counts)
    /\ read = [CB |-> read_counts[3].cell, XM |-> Len(read_counts[3].umis)]
    /\ exception = "none"
    /\ tsv = Unbound
    /\ total_reads_all = Unbound
    /\ bcstats_df = Unbound
    /\ real_barcodes = Unbound
    /\ it = Unbound
    /\ reads_per_cell = Unbound
    /\ saturation_indices = Unbound
    /\ unique_umis_per_cell = Unbound
    /\ mean_reads = Unbound
    /\ mean_saturation = Unbound
    /\ global_total_reads = Unbound
    /\ global_total_unique = Unbound
    /\ global_saturation = Unbound
    /\ filtered_cell_count = Unbound
    /\ fraction_filtered = Unbound

NextScenario ==
    \/ WriteTsv
    \/ SumAll
    \/ ReadBcstats(ScenarioTables)
    \/ MetricStep
    \/ Summary

SpecScenario == InitScenario /\ [][NextScenario]_vars

----------------------------------------------------------------------------
(* Part 3: model fitting and plotting *)

\* points of np.linspace(start, stop, 1000)
GridPoints == 1000

\* target_reads
target_reads == 10000

\* the 0.9 of `y_target = y_max_val * 0.9`
KneeFraction == <<9, 10>>

\* f"{x:.<digits>f}": x rounded to so many decimals ("inf" and "nan" print as such)
RECURSIVE Pow10(_)
Pow10(k) == IF k = 0 THEN 1 ELSE 10 * Pow10(k - 1)

\* <<q, r>> with x * 10^digits = q + r / den(x), by long division
RECURSIVE shifted(_, _)
shifted(x, digits) ==
    IF digits = 0 THEN <<x[1] \div x[2], x[1] % x[2]>>
    ELSE LET s == shifted(x, digits - 1)
         IN <<s[1] * 10 + (s[2] * 10) \div x[2], (s[2] * 10) % x[2]>>

format_f(x, digits) ==
    IF ~IsFinite(x) THEN x
    ELSE LET s == shifted(x, digits)
             q == s[1]
             r == s[2]
         IN IF 2 * r < x[2] THEN Rat(q, Pow10(digits))
            ELSE IF 2 * r > x[2] THEN Rat(q + 1, Pow10(digits))
            ELSE IF q % 2 = 0 THEN Rat(q, Pow10(digits))
            ELSE Rat(q + 1, Pow10(digits))

\* the print() calls after the summary
printed_lines ==
    <<[text |-> "Average reads per real cell", value |-> format_f(mean_reads, 1)],
      [text |-> "Total filtered (real) cells", value |-> filtered_cell_count]>>
    \o (IF script = "vComprehensive"
        THEN <<[text |-> "Fraction of reads going to filtered cells",
                value |-> format_f(fraction_filtered, 3)]>>
        ELSE <<>>)

\* np.max / np.min of a non-empty int array
np_max(xs) == CHOOSE m \in {xs[i] : i \in 1..Len(xs)} : \A i \in 1..Len(xs) : xs[i] <= m

np_min(xs) == CHOOSE m \in {xs[i] : i \in 1..Len(xs)} : \A i \in 1..Len(xs) : m <= xs[i]

\* max(ys) of a non-empty float array
max(ys) == ys[CHOOSE i \in 1..Len(ys) : \A j \in 1..Len(ys) : RGe(ys[i], ys[j])]

\* faulty variant: half saturation at twice Km
MM_double_km(x, vmax, km) == RDiv(RMul(vmax, x), RAdd(RAdd(km, km), x))

\* def MM(x, Vmax, Km): return Vmax * x / (Km + x)
MM(x, vmax, km) == RDiv(RMul(vmax, x), RAdd(km, x))

\* MM over an array
MM_array(xs, vmax, km) == [i \in 1..Len(xs) |-> MM(xs[i], vmax, km)]

\* faulty variant: the quotient itself
one_minus_identity(q) == q

\* 1 - q for a float q that may be inf or nan
one_minus(q) ==
    IF IsFinite(q) THEN RSub(RInt(1), q)
    ELSE <<-q[1], 0>>

\* r_squared = 1 - (ss_res / ss_tot)
r_squared_of(xs, ys, vmax, km) ==
    LET fitted    == MM_array(as_floats(xs), vmax, km)
        residuals == [i \in 1..Len(ys) |-> RSub(ys[i], fitted[i])]
        ss_res    == RSum([i \in 1..Len(ys) |-> RMul(residuals[i], residuals[i])])
        y_mean    == np_mean(ys)
        ss_tot    == RSum([i \in 1..Len(ys) |->
                             RMul(RSub(ys[i], y_mean), RSub(ys[i], y_mean))])
    IN one_minus(RDiv(ss_res, ss_tot))

\* np.linspace(start, stop, num) for int start <= stop
np_linspace(start, stop, num) ==
    [i \in 1..num |-> RAdd(RInt(start), Rat((i - 1) * (stop - start), num - 1))]

\* faulty variant: the indices strictly above the target
np_where_ge_strict(ys, target) ==
    SelectSeq([i \in 1..Len(ys) |-> i - 1],
              LAMBDA k : ~RGe(target, ys[k + 1]))

\* np.where(ys >= target)[0]: the 0-based indices, ascending
np_where_ge(ys, target) ==
    SelectSeq([i \in 1..Len(ys) |-> i - 1],
              LAMBDA k : RGe(ys[k + 1], target))

\* faulty variant: the slice that keeps the element at `stop`
slice_to_inclusive(xs, stop) == SubSeq(xs, 1, stop + 1)

\* xs[:stop] for a 0-based stop
slice_to(xs, stop) == SubSeq(xs, 1, stop)

\* xs[k] for a 0-based k
item(xs, k) == xs[k + 1]

\* parameter pairs (Vmax, Km) the optimizer may settle on
FitParams ==
    {<<Rat(1, 2), Rat(1, 6)>>, <<Rat(3, 4), Rat(1, 3)>>, <<RInt(1), RInt(5)>>,
     <<Rat(-1, 2), Rat(1, 6)>>}

\* read depths from which only the flat fit is examined
DeepReads == 1000

\* the flat curve of a plateaued sample: Vmax = 0.9, Km = 0
FlatParams == {<<Rat(9, 10), RInt(0)>>}

\* the parameter pairs examined for the data xs
FitParamsFor(xs) == IF np_max(xs) < DeepReads THEN FitParams ELSE FlatParams

\* diagonals of the covariance it may return for m data points: with no more
\* points than parameters curve_fit fills the matrix with inf
Covariances(m) ==
    IF m > 2
    THEN {<<Rat(1, 100), Rat(1, 36)>>, <<Rat(1, 100), RInt(1)>>, <<Inf, Inf>>}
    ELSE {<<Inf, Inf>>}

\* faulty variant: a fit that accepts any number of points
curve_fit_unchecked(xs, ys) ==
    {[raised |-> "none", popt |-> p, pcov |-> c] :
        p \in FitParamsFor(xs), c \in Covariances(Len(xs))}

\* outcomes of curve_fit(MM, xs, ys, p0=p0): fewer points than parameters is a
\* TypeError, a failed optimization a RuntimeError, anything else a result
curve_fit(xs, ys) ==
    IF Len(xs) < 2
    THEN {[raised |-> "TypeError", popt |-> <<>>, pcov |-> <<>>]}
    ELSE {[raised |-> "RuntimeError", popt |-> <<>>, pcov |-> <<>>]}
         \cup {[raised |-> "none", popt |-> p, pcov |-> c] :
                  p \in FitParamsFor(xs), c \in Covariances(Len(xs))}

\* everything bound before part 3
upstream_vars == <<script, fetched, read, read_counts, tsv, total_reads_all, metric_vars,
                   summary_vars>>

data_vars == <<x_data, y_data, p0>>

param_vars == <<Vmax, Km, sigma>>

curve_vars == <<x_fit, y_fit, x_coef_indices, cutoff_index, x_fit_trim, y_fit_trim,
                x_max_val>>

projection_vars == <<extra_per_cell, extra_reads_filtered, total_extra_reads_required>>

\* the three (two) print() calls
Report ==
    /\ pc = "fit"
    /\ stdout' = stdout \o printed_lines
    /\ pc' = "arrays"
    /\ UNCHANGED <<filter_vars, upstream_vars, exception, data_vars, param_vars, r_squared, curve_vars,
                   projection_vars, knee_x, plot_file, bound_upper, bound_lower>>

\* x_data, y_data and the initial guess p0; on empty arrays np.max(x_data)
\* (VLOGdatatransform) or max(y_data) (vComprehensive) raises ValueError
Arrays ==
    /\ pc = "arrays"
    /\ x_data' = reads_per_cell
    /\ y_data' = saturation_indices
    /\ IF Len(reads_per_cell) = 0
       THEN /\ exception' = "ValueError"
            /\ pc' = "aborted"
            /\ p0' = p0
       ELSE /\ p0' = <<max(saturation_indices), np_mean(as_floats(reads_per_cell))>>
            /\ pc' = "curve_fit"
            /\ exception' = exception
    /\ UNCHANGED <<filter_vars, upstream_vars, stdout, param_vars, r_squared, curve_vars,
                   projection_vars, knee_x, plot_file, bound_upper, bound_lower>>

\* best_fit_params, covar = curve_fit(...); Vmax, Km; sigma
CurveFit ==
    /\ pc = "curve_fit"
    /\ \E res \in curve_fit(x_data, y_data) :
          IF res.raised # "none"
          THEN /\ exception' = res.raised
               /\ pc' = "aborted"
               /\ UNCHANGED param_vars
          ELSE /\ Vmax' = res.popt[1]
               /\ Km' = res.popt[2]
               /\ sigma' = <<RSqrt(res.pcov[1]), RSqrt(res.pcov[2])>>
               /\ pc' = "r_squared"
               /\ exception' = exception
    /\ UNCHANGED <<filter_vars, upstream_vars, stdout, data_vars, r_squared, curve_vars,
                   projection_vars, knee_x, plot_file, bound_upper, bound_lower>>

\* residuals, ss_res, ss_tot, r_squared
RSquared ==
    /\ pc = "r_squared"
    /\ r_squared' = r_squared_of(x_data, y_data, Vmax, Km)
    /\ pc' = "grid"
    /\ UNCHANGED <<filter_vars, upstream_vars, exception, stdout, data_vars, param_vars, curve_vars,
                   projection_vars, knee_x, plot_file, bound_upper, bound_lower>>

\* x_fit, y_fit
Grid ==
    /\ pc = "grid"
    /\ x_fit' = np_linspace(np_min(x_data), np_max(x_data), GridPoints)
    /\ y_fit' = MM_array(x_fit', Vmax, Km)
    /\ pc' = "knee"
    /\ UNCHANGED <<filter_vars, upstream_vars, exception, stdout, data_vars, param_vars, r_squared,
                   x_coef_indices, cutoff_index, x_fit_trim, y_fit_trim, x_max_val,
                   projection_vars, knee_x, plot_file, bound_upper, bound_lower>>

\* the trim of the fitted curve at 90% of Vmax.  In VLOGdatatransform the
\* branch without a knee evaluates `if x_fit > 0`, the truth value of a
\* 1000-element array, which raises ValueError
Knee ==
    /\ pc = "knee"
    /\ x_coef_indices' = np_where_ge(y_fit, RMul(Vmax, KneeFraction))
    /\ IF Len(x_coef_indices') > 0
       THEN /\ cutoff_index' = x_coef_indices'[1]
            /\ x_fit_trim' = slice_to(x_fit, cutoff_index')
            /\ y_fit_trim' = slice_to(y_fit, cutoff_index')
            /\ IF script = "VLOGdatatransform"
               THEN /\ x_max_val' = IF Len(x_fit_trim') > 0 THEN max(x_fit_trim') ELSE RInt(0)
                    /\ stdout' = IF Len(x_fit_trim') > 0 THEN stdout
                                 ELSE Append(stdout,
                                             [text |-> "Warning: x_fit_trim is empty, using default value",
                                              value |-> <<>>])
                    /\ pc' = "plot"
               ELSE /\ pc' = "projection"
                    /\ UNCHANGED <<x_max_val, stdout>>
            /\ exception' = exception
       ELSE /\ x_fit_trim' = x_fit
            /\ y_fit_trim' = y_fit
            /\ IF script = "VLOGdatatransform"
               THEN /\ exception' = "ValueError"
                    /\ pc' = "aborted"
               ELSE /\ pc' = "projection"
                    /\ exception' = exception
            /\ UNCHANGED <<cutoff_index, x_max_val, stdout>>
    /\ UNCHANGED <<filter_vars, upstream_vars, data_vars, param_vars, r_squared, x_fit, y_fit,
                   projection_vars, knee_x, plot_file, bound_upper, bound_lower>>

\* faulty variant: the division without its guard
total_extra_of_unguarded(extra, fraction) == RDiv(extra, fraction)

\* extra_reads_filtered / fraction_filtered if fraction_filtered > 0 else 0
total_extra_of(extra, fraction) ==
    IF fraction[1] > 0 THEN RDiv(extra, fraction) ELSE RInt(0)

\* vComprehensive: extra reads needed to reach target_reads per cell
Projection ==
    /\ pc = "projection"
    /\ extra_per_cell' = RMax0(RSub(RInt(target_reads), mean_reads))
    /\ extra_reads_filtered' = RMul(extra_per_cell', RInt(filtered_cell_count))
    /\ total_extra_reads_required' = total_extra_of(extra_reads_filtered', fraction_filtered)
    /\ pc' = "plot"
    /\ UNCHANGED <<filter_vars, upstream_vars, exception, stdout, data_vars, param_vars, r_squared,
                   curve_vars, knee_x, plot_file, bound_upper, bound_lower>>

\* the values written on the figure
annotations ==
    [global_saturation |-> format_f(global_saturation, 3),
     mean_saturation |-> format_f(mean_saturation, 3),
     mean_reads |-> format_f(mean_reads, 1),
     filtered_cell_count |-> filtered_cell_count,
     Vmax |-> format_f(Vmax, 3),
     Km |-> format_f(Km, 1),
     sigma |-> <<format_f(sigma[1], 3), format_f(sigma[2], 1)>>,
     r_squared |-> format_f(r_squared, 3),
     projection |-> IF script = "vComprehensive"
                    THEN <<format_f(extra_per_cell, 0), format_f(extra_reads_filtered, 0),
                           format_f(total_extra_reads_required, 0),
                           format_f(RMul(fraction_filtered, RInt(100)), 1)>>
                    ELSE <<>>]

\* faulty variant: the band varies Vmax only
bound_of_vmax_only(xs, vmax, km, sig, side) ==
    MM_array(xs, IF side > 0 THEN RAdd(vmax, sig[1]) ELSE RSub(vmax, sig[1]), km)

\* MM(x_fit_trim, Vmax + sigma[0], Km + sigma[1]) for side 1 and
\* MM(x_fit_trim, Vmax - sigma[0], Km - sigma[1]) for side -1
bound_of(xs, vmax, km, sig, side) ==
    MM_array(xs, IF side > 0 THEN RAdd(vmax, sig[1]) ELSE RSub(vmax, sig[1]),
                 IF side > 0 THEN RAdd(km, sig[2]) ELSE RSub(km, sig[2]))

\* the plot: the confidence band, the knee line, the annotations, plt.savefig
Plot ==
    /\ pc = "plot"
    /\ knee_x' = IF Len(x_coef_indices) > 0
                 THEN (IF script = "vComprehensive"
                       THEN item(x_fit, x_coef_indices[1])
                       ELSE item(x_fit, cutoff_index))
                 ELSE NaN
    /\ plot_file' = [annotations EXCEPT !.projection = @] @@
                    [knee_label |-> IF Len(x_coef_indices) > 0
                                    THEN <<format_f(knee_x', 0)>>
                                    ELSE <<>>]
    /\ bound_upper' = bound_of(x_fit_trim, Vmax, Km, sigma, 1)
    /\ bound_lower' = bound_of(x_fit_trim, Vmax, Km, sigma, -1)
    /\ pc' = "done"
    /\ UNCHANGED <<filter_vars, upstream_vars, exception, stdout, data_vars, param_vars, r_squared,
                   curve_vars, projection_vars>>

\* cells of the fitting runs
FitCells == <<"b1", "b2", "b3">>

\* (total reads, unique UMIs) of the cells of each fitting run: two shallow
\* samples and two at the depth of target_reads
FitPairs ==
    {<<<<2, 1>>, <<4, 2>>, <<1, 1>>>>,
     <<<<2, 1>>, <<2, 2>>, <<2, 1>>>>,
     <<<<10000, 1000>>, <<10000, 1000>>, <<10000, 2000>>>>,
     <<<<9990, 999>>, <<10989, 999>>, <<4995, 999>>>>}

\* the tallies of these runs, and the tally of an empty stream
FitTallies ==
    {[i \in 1..3 |-> [cell |-> FitCells[i], umis |-> umi_dict_with(prs[i][1], prs[i][2])]] :
        prs \in FitPairs}
    \cup {<<>>}

\* classification tables that call the first k cells real
FitTables == {{<<FitCells[i], "cell">> : i \in 1..k} : k \in 0..3}

InitFit ==
    /\ FitUnbound
    /\ FilterUnbound
    /\ script \in Scripts
    /\ pc = "write_tsv"
    /\ read_counts \in FitTallies
    /\ fetched = records_of(read_counts)
    /\ read = IF read_counts = <<>> THEN Unbound
              ELSE [CB |-> read_counts[3].cell, XM |-> Len(read_counts[3].umis)]
    /\ exception = "none"
    /\ tsv = Unbound
    /\ total_reads_all = Unbound
    /\ bcstats_df = Unbound
    /\ real_barcodes = Unbound
    /\ it = Unbound
    /\ reads_per_cell = Unbound
    /\ saturation_indices = Unbound
    /\ unique_umis_per_cell = Unbound
    /\ mean_reads = Unbound
    /\ mean_saturation = Unbound
    /\ global_total_reads = Unbound
    /\ global_total_unique = Unbound
    /\ global_saturation = Unbound
    /\ filtered_cell_count = Unbound
    /\ fraction_filtered = Unbound

NextFit ==
    \/ WriteTsv
    \/ SumAll
    \/ ReadBcstats(FitTables)
    \/ MetricStep
    \/ Summary
    \/ Report
    \/ Arrays
    \/ CurveFit
    \/ RSquared
    \/ Grid
    \/ Knee
    \/ Projection
    \/ Plot

SpecFit == InitFit /\ [][NextFit]_vars

---------------------------------------------------------------------------
(* Part 2 in floating point: the summary metrics as the two scripts round  *)
(* them.  A float is a rational with a Precision-bit significand; every    *)
(* operation rounds its exact result to the nearest float, ties to even.   *)

\* bits of the significand (53 in a Python float)
Precision == 8

\* filtered cells of the rounded runs; numpy sums blocks of 8
MeanCells == 8

\* exponents of the floats that occur
FloatExponents == -16..8

RECURSIVE Pow2(_)
Pow2(k) == IF k = 0 THEN 1 ELSE 2 * Pow2(k - 1)

\* x / 2^e
scaled(x, e) == IF e >= 0 THEN Rat(x[1], x[2] * Pow2(e)) ELSE Rat(x[1] * Pow2(-e), x[2])

\* nearest float of a rational x >= 0, ties to even
fl(x) ==
    IF x[1] = 0 THEN x
    ELSE LET e == CHOOSE k \in FloatExponents :
                      /\ scaled(x, k)[1] >= Pow2(Precision - 1) * scaled(x, k)[2]
                      /\ scaled(x, k)[1] < Pow2(Precision) * scaled(x, k)[2]
             q == scaled(x, e)
             m == q[1] \div q[2]
             twice == 2 * (q[1] - m * q[2])
             rounded == IF twice > q[2] \/ (twice = q[2] /\ m % 2 = 1) THEN m + 1 ELSE m
         IN  IF e >= 0 THEN RInt(rounded * Pow2(e)) ELSE Rat(rounded, Pow2(-e))

float_add(x, y) == fl(RAdd(x, y))

RECURSIVE sum_floats_from(_, _, _)
sum_floats_from(xs, i, acc) ==
    IF i > Len(xs) THEN acc ELSE sum_floats_from(xs, i + 1, float_add(acc, xs[i]))

\* faulty variant: the first element is left out
sum_floats_tail(xs) == sum_floats_from(xs, 2, RInt(0))

\* builtin sum(xs) of floats: 0 + xs[0] + xs[1] + ... from left to right
sum_floats(xs) == sum_floats_from(xs, 1, RInt(0))

\* sum of xs[j], xs[j + 8], ... below index `stop` (1-based, exclusive)
RECURSIVE lane(_, _, _, _)
lane(xs, j, stop, acc) ==
    IF j >= stop THEN acc ELSE lane(xs, j + 8, stop, float_add(acc, xs[j]))

\* numpy add.reduce over a contiguous float64 array: fewer than 8 elements
\* are added from left to right; otherwise 8 running sums over the whole
\* blocks of 8 are combined pairwise and the remainder is added one by one
add_reduce(xs) ==
    LET n == Len(xs)
        whole == n - (n % 8)
        r == [j \in 1..8 |-> lane(xs, j + 8, whole + 1, xs[j])]
    IN  IF n < 8 THEN sum_floats_from(xs, 2, xs[1])
        ELSE sum_floats_from(
                 xs, whole + 1,
                 float_add(float_add(float_add(r[1], r[2]), float_add(r[3], r[4])),
                           float_add(float_add(r[5], r[6]), float_add(r[7], r[8]))))

\* np.mean(xs): add.reduce in float64, then the division by the count
np_mean_float(xs) == fl(RDiv(add_reduce([i \in 1..Len(xs) |-> fl(xs[i])]), RInt(Len(xs))))

\* sum(xs) / len(xs) on floats
py_mean_float(xs) == fl(RDiv(sum_floats(xs), RInt(Len(xs))))

\* sum(xs) / len(xs) on ints: the sum is exact, the division rounds once
py_mean_int(xs) == fl(Rat(sum(xs), Len(xs)))

\* 1 - (unique_umis / total_reads) if total_reads > 0 else 0, as floats
float_saturation(unique_umis, total_reads) ==
    IF total_reads > 0 THEN fl(RSub(RInt(1), fl(Rat(unique_umis, total_reads)))) ELSE RInt(0)

\* the floats held by saturation_indices
float_saturations ==
    [i \in 1..Len(reads_per_cell) |->
        float_saturation(unique_umis_per_cell[i], reads_per_cell[i])]

\* mean_reads and mean_saturation as each script computes them
mean_reads_of(s, reads) ==
    IF reads = <<>> THEN RInt(0)
    ELSE IF s = "vComprehensive" THEN np_mean_float(as_floats(reads))
    ELSE py_mean_int(reads)

mean_saturation_of(s, sats) ==
    IF sats = <<>> THEN RInt(0)
    ELSE IF s = "vComprehensive" THEN np_mean_float(sats)
    ELSE py_mean_float(sats)

\* the summary metrics after the loop, rounded as Python rounds them
SummaryRounded ==
    /\ pc = "metric_loop"
    /\ it > Len(read_counts)
    /\ mean_reads' = mean_reads_of(script, reads_per_cell)
    /\ mean_saturation' = mean_saturation_of(script, float_saturations)
    /\ global_total_reads' = sum(reads_per_cell)
    /\ global_total_unique' = sum(unique_umis_per_cell)
    /\ global_saturation' =
           float_saturation(sum(unique_umis_per_cell), sum(reads_per_cell))
    /\ filtered_cell_count' = Len(reads_per_cell)
    /\ fraction_filtered' =
           IF script = "vComprehensive"
           THEN (IF total_reads_all > 0
                 THEN fl(Rat(sum(reads_per_cell), total_reads_all))
                 ELSE RInt(0))
           ELSE fraction_filtered
    /\ pc' = "fit"
    /\ UNCHANGED <<filter_vars, fit_vars, script, fetched, read, exception, read_counts, tsv, total_reads_all,
                   metric_vars>>

\* cells of the rounded runs
MeanBarcodes == <<"c1", "c2", "c3", "c4", "c5", "c6", "c7", "c8", "c9", "c10">>

\* (total reads, unique UMIs) a cell of these runs can have
MeanPairs == {<<3, 2>>, <<3, 1>>}

\* the pairs of a run: the last four cells vary, the cells before them have
\* three reads of one UMI
MeanRuns ==
    {[i \in 1..MeanCells |-> IF i <= MeanCells - 4 THEN <<3, 1>> ELSE last[i - (MeanCells - 4)]] :
        last \in [1..4 -> MeanPairs]}

MeanTallies ==
    {[i \in 1..MeanCells |->
         [cell |-> MeanBarcodes[i], umis |-> umi_dict_with(prs[i][1], prs[i][2])]] :
        prs \in MeanRuns}

\* classification tables that call no cell, three cells or every cell real
MeanTables == {{<<MeanBarcodes[i], "cell">> : i \in 1..k} : k \in {0, 3, MeanCells}}

InitMeans ==
    /\ FitUnbound
    /\ FilterUnbound
    /\ script \in Scripts
    /\ pc = "write_tsv"
    /\ read_counts \in MeanTallies
    /\ fetched = records_of(read_counts)
    /\ read = [CB |-> read_counts[MeanCells].cell,
               XM |-> Len(read_counts[MeanCells].umis)]
    /\ exception = "none"
    /\ tsv = Unbound
    /\ total_reads_all = Unbound
    /\ bcstats_df = Unbound
    /\ real_barcodes = Unbound
    /\ it = Unbound
    /\ reads_per_cell = Unbound
    /\ saturation_indices = Unbound
    /\ unique_umis_per_cell = Unbound
    /\ mean_reads = Unbound
    /\ mean_saturation = Unbound
    /\ global_total_reads = Unbound
    /\ global_total_unique = Unbound
    /\ global_saturation = Unbound
    /\ filtered_cell_count = Unbound
    /\ fraction_filtered = Unbound

NextMeans ==
    \/ WriteTsv
    \/ SumAll
    \/ ReadBcstats(MeanTables)
    \/ MetricStep
    \/ SummaryRounded

SpecMeans == InitMeans /\ [][NextMeans]_vars

---------------------------------------------------------------------------
(* sc_scripts/filter_LR_reads_using_SR_CBs.py: filter_bam_by_barcode.      *)
(* A barcode is a sequence of one-letter strings, a line of the barcode    *)
(* file a sequence of letters and whitespace.                              *)

\* the names of the two saturation scripts apart from pc, exception, stdout
saturation_vars == <<upstream_vars, data_vars, param_vars, r_squared, curve_vars,
                     projection_vars, knee_x, plot_file, bound_upper, bound_lower>>

\* longest input BAM explored
MaxBamReads == 3

FilterScript == "filter_LR_reads_using_SR_CBs"

\* the command-line paths
input_bam == "in.bam"

output_bam == "out.bam"

report_path == "report.txt"

Whitespace == {" ", "\n"}

\* CB tags of the input reads: a barcode, its reverse complement, a
\* palindrome and a tag with a letter that is no base
FilterCBs == {<<"A", "C">>, <<"G", "T">>, <<"A", "T">>, <<"x", "T">>}

\* a read carries a CB tag or no tag at all
FilterReads == {[CB |-> cb] : cb \in FilterCBs} \cup {<<>>}

\* barcode files: a barcode and its reverse complement; a blank line, an
\* indented line and a repeated line; a palindrome; an empty file
BarcodeFiles ==
    {<<<<"A", "C", "\n">>, <<"G", "T", "\n">>>>,
     <<<<"A", "C", "\n">>, <<"\n">>, <<" ", "A", "N", "\n">>, <<"A", "C">>>>,
     <<<<"A", "T", "\n">>>>,
     <<>>}

\* --sample_id: absent (None) or given
SampleIds == {<<>>, <<"S1">>}

\* values of datetime.now().isoformat()
Timestamps == {"2025-01-01T00:00:00", "2025-01-01T00:00:01"}

complement(base) ==
    CASE base = "A" -> "T"
      [] base = "T" -> "A"
      [] base = "C" -> "G"
      [] base = "G" -> "C"
      [] OTHER -> "N"

\* faulty variant: the complement without the reversal
reverse_complement_forward(seq) == [i \in 1..Len(seq) |-> complement(seq[i])]

\* ''.join(complement.get(base, 'N') for base in reversed(seq))
reverse_complement(seq) == [i \in 1..Len(seq) |-> complement(seq[Len(seq) + 1 - i])]

RECURSIVE lstrip(_)
lstrip(line) ==
    IF line # <<>> /\ Head(line) \in Whitespace THEN lstrip(Tail(line)) ELSE line

RECURSIVE rstrip(_)
rstrip(line) ==
    IF line # <<>> /\ line[Len(line)] \in Whitespace
    THEN rstrip(SubSeq(line, 1, Len(line) - 1))
    ELSE line

\* line.strip()
strip(line) == rstrip(lstrip(line))

\* set(line.strip() for line in f if line.strip())
read_barcodes(file) ==
    {strip(file[i]) : i \in {k \in 1..Len(file) : strip(file[k]) # <<>>}}

\* position of barcode b among the keys of the dict, 0 if it is no key
key_index(counts, b) ==
    IF \E i \in 1..Len(counts) : counts[i].barcode = b
    THEN CHOOSE i \in 1..Len(counts) : counts[i].barcode = b
    ELSE 0

\* barcode_counts[b] += 1 on a defaultdict(int)
increment_count(counts, b) ==
    IF key_index(counts, b) = 0
    THEN Append(counts, [barcode |-> b, count |-> 1])
    ELSE [counts EXCEPT ![key_index(counts, b)].count = @ + 1]

\* max(barcode_counts.items(), key=lambda x: x[1]): the first of the largest
max_item(counts) ==
    counts[CHOOSE i \in 1..Len(counts) :
               /\ \A j \in 1..Len(counts) : counts[j].count <= counts[i].count
               /\ \A j \in 1..(i - 1) : counts[j].count < counts[i].count]

\* min(barcode_counts.items(), key=lambda x: x[1]): the first of the smallest
min_item(counts) ==
    counts[CHOOSE i \in 1..Len(counts) :
               /\ \A j \in 1..Len(counts) : counts[j].count >= counts[i].count
               /\ \A j \in 1..(i - 1) : counts[j].count > counts[i].count]

count_values(counts) == [i \in 1..Len(counts) |-> counts[i].count]

\* np.median of a list of ints
np_median(xs) ==
    LET s == SortSeq(xs, LAMBDA a, b : a < b)
        n == Len(s)
    IN  IF n % 2 = 1 THEN RInt(s[(n + 1) \div 2])
        ELSE Rat(s[n \div 2] + s[n \div 2 + 1], 2)

\* insertion of an item behind every item with at least its count
RECURSIVE insert_desc(_, _)
insert_desc(sorted, entry) ==
    IF sorted = <<>> THEN <<entry>>
    ELSE IF Head(sorted).count >= entry.count
         THEN <<Head(sorted)>> \o insert_desc(Tail(sorted), entry)
         ELSE <<entry>> \o sorted

\* sorted(barcode_counts.items(), key=lambda x: -x[1]), a stable sort
RECURSIVE sorted_desc_from(_, _, _)
sorted_desc_from(counts, i, acc) ==
    IF i > Len(counts) THEN acc
    ELSE sorted_desc_from(counts, i + 1, insert_desc(acc, counts[i]))

sorted_desc(counts) == sorted_desc_from(counts, 1, <<>>)

\* [:top_n]
first_n(xs, n) == SubSeq(xs, 1, IF Len(xs) < n THEN Len(xs) ELSE n)

\* read_barcodes, the first print, the two BAM files, the counters
LoadBarcodes ==
    /\ pc = "filter_load"
    /\ barcodes' = read_barcodes(barcode_file)
    /\ stdout' = Append(stdout, <<"Loaded ", Cardinality(barcodes'), " barcodes from list.">>)
    /\ in_bam' = <<>>
    /\ out_bam' = <<>>
    /\ bam_total_reads' = 0
    /\ retained_reads' = 0
    /\ found_barcodes' = {}
    /\ barcode_counts' = <<>>
    /\ pc' = "filter_loop"
    /\ UNCHANGED <<saturation_vars, exception, barcode_file, sample_id, stats_vars,
                   summary_lines, barcode_plot, barcodes_tsv, report_file>>

\* one iteration of `for read in in_bam`
FilterRead ==
    /\ pc = "filter_loop"
    /\ Len(in_bam) < MaxBamReads
    /\ \E rd \in FilterReads :
          /\ in_bam' = Append(in_bam, rd)
          /\ bam_total_reads' = bam_total_reads + 1
          /\ IF "CB" \notin DOMAIN rd
             THEN UNCHANGED <<out_bam, retained_reads, found_barcodes, barcode_counts>>
             ELSE LET cb == rd.CB
                      rc_cb == reverse_complement(cb)
                  IN  IF cb \notin barcodes /\ rc_cb \notin barcodes
                      THEN UNCHANGED <<out_bam, retained_reads, found_barcodes,
                                       barcode_counts>>
                      ELSE LET matched_cb == IF cb \in barcodes THEN cb ELSE rc_cb
                           IN  /\ out_bam' = Append(out_bam, rd)
                               /\ retained_reads' = retained_reads + 1
                               /\ found_barcodes' = found_barcodes \cup {matched_cb}
                               /\ barcode_counts' = increment_count(barcode_counts, matched_cb)
    /\ UNCHANGED <<saturation_vars, pc, exception, stdout, barcode_file, sample_id, barcodes,
                   stats_vars, summary_lines, barcode_plot, barcodes_tsv, report_file>>

\* the input is exhausted: both files are closed, fraction_retained and the
\* statistics of barcode_counts are computed
CloseAndStats ==
    /\ pc = "filter_loop"
    /\ fraction_retained' =
           IF bam_total_reads # 0 THEN Rat(retained_reads, bam_total_reads) ELSE RInt(0)
    /\ IF barcode_counts # <<>>
       THEN /\ max_cb' = max_item(barcode_counts)
            /\ min_cb' = min_item(barcode_counts)
            /\ avg_reads_per_cb' = Rat(sum(count_values(barcode_counts)), Len(barcode_counts))
            /\ median_reads_per_cb' = np_median(count_values(barcode_counts))
       ELSE /\ max_cb' = [barcode |-> "NA", count |-> 0]
            /\ min_cb' = [barcode |-> "NA", count |-> 0]
            /\ avg_reads_per_cb' = RInt(0)
            /\ UNCHANGED median_reads_per_cb
    /\ pc' = "filter_summary"
    /\ UNCHANGED <<saturation_vars, exception, stdout, barcode_file, sample_id, barcodes,
                   loop_vars, summary_lines, barcode_plot, barcodes_tsv, report_file>>

\* the two header lines of the report
header_lines(now) ==
    <<IF sample_id # <<>> /\ sample_id[1] # ""
      THEN <<"Report for Sample: ", sample_id[1]>>
      ELSE <<"Report">>,
      <<"Generated: ", now>>>>

\* the twelve lines added with +=
body_lines ==
    <<<<"Input BAM: ", input_bam>>,
      <<"Output BAM: ", output_bam>>,
      <<"Barcode file: ", barcode_file>>,
      <<"Total reads: ", bam_total_reads>>,
      <<"Reads retained: ", retained_reads>>,
      <<"Fraction retained: ", format_f(fraction_retained, 4)>>,
      <<"Barcodes in list: ", Cardinality(barcodes)>>,
      <<"Barcodes found in BAM: ", Cardinality(found_barcodes)>>,
      <<"Average reads per retained barcode: ", format_f(avg_reads_per_cb, 2)>>,
      <<"Median reads per retained barcode: ", format_f(median_reads_per_cb, 2)>>,
      <<"Barcode with most reads: ", max_cb.barcode, " (", max_cb.count, " reads)">>,
      <<"Barcode with fewest reads: ", min_cb.barcode, " (", min_cb.count, " reads)">>>>

\* summary_lines up to the statistics; reading median_reads_per_cb while it
\* is unbound raises UnboundLocalError
SummaryLines ==
    /\ pc = "filter_summary"
    /\ \E now \in Timestamps :
          IF median_reads_per_cb = Unbound
          THEN /\ summary_lines' = header_lines(now)
               /\ exception' = "UnboundLocalError"
               /\ pc' = "filter_aborted"
          ELSE /\ summary_lines' = header_lines(now) \o body_lines
               /\ exception' = exception
               /\ pc' = "filter_plot"
    /\ UNCHANGED <<saturation_vars, stdout, barcode_file, sample_id, barcodes, loop_vars,
                   stats_vars, barcode_plot, barcodes_tsv, report_file>>

\* plot_top_barcodes(barcode_counts, plot_file) with top_n = 20, and the
\* line naming the plot
PlotTopBarcodes ==
    /\ pc = "filter_plot"
    /\ IF barcode_counts = <<>>
       THEN /\ stdout' = Append(stdout, <<"No barcode counts to plot.">>)
            /\ UNCHANGED barcode_plot
       ELSE /\ barcode_plot' =
                   [path |-> output_bam \o ".barcode_plot.png",
                    bars |-> first_n(sorted_desc(barcode_counts), 20)]
            /\ UNCHANGED stdout
    /\ summary_lines' =
           Append(summary_lines, <<"Plot saved as: ", output_bam \o ".barcode_plot.png">>)
    /\ pc' = "filter_counts"
    /\ UNCHANGED <<saturation_vars, exception, barcode_file, sample_id, barcodes, loop_vars,
                   stats_vars, barcodes_tsv, report_file>>

\* write_barcode_counts_tsv(barcode_counts, barcodes_tsv)
WriteBarcodeCounts ==
    /\ pc = "filter_counts"
    /\ barcodes_tsv' =
           [path |-> output_bam \o ".barcode_counts.tsv",
            rows |-> <<<<"Barcode", "ReadCount">>>>
                     \o [i \in 1..Len(barcode_counts) |->
                            <<sorted_desc(barcode_counts)[i].barcode,
                              sorted_desc(barcode_counts)[i].count>>]]
    /\ stdout' = Append(stdout, <<"Barcode count table saved to: ",
                                  output_bam \o ".barcode_counts.tsv">>)
    /\ pc' = "filter_report"
    /\ UNCHANGED <<saturation_vars, exception, barcode_file, sample_id, barcodes, loop_vars,
                   stats_vars, summary_lines, barcode_plot, report_file>>

\* the report file and the printed summary
WriteReport ==
    /\ pc = "filter_report"
    /\ report_file' = [path |-> report_path, lines |-> summary_lines]
    /\ stdout' = stdout \o summary_lines
    /\ pc' = "filter_done"
    /\ UNCHANGED <<saturation_vars, exception, barcode_file, sample_id, barcodes, loop_vars,
                   stats_vars, summary_lines, barcode_plot, barcodes_tsv>>

InitFilter ==
    /\ FitUnbound
    /\ script = FilterScript
    /\ pc = "filter_load"
    /\ fetched = EmptyBag
    /\ read = Unbound
    /\ exception = "none"
    /\ read_counts = Unbound
    /\ tsv = Unbound
    /\ total_reads_all = Unbound
    /\ bcstats_df = Unbound
    /\ real_barcodes = Unbound
    /\ it = Unbound
    /\ reads_per_cell = Unbound
    /\ saturation_indices = Unbound
    /\ unique_umis_per_cell = Unbound
    /\ mean_reads = Unbound
    /\ mean_saturation = Unbound
    /\ global_total_reads = Unbound
    /\ global_total_unique = Unbound
    /\ global_saturation = Unbound
    /\ filtered_cell_count = Unbound
    /\ fraction_filtered = Unbound
    /\ barcode_file \in BarcodeFiles
    /\ sample_id \in SampleIds
    /\ barcodes = Unbound
    /\ in_bam = Unbound
    /\ out_bam = Unbound
    /\ bam_total_reads = Unbound
    /\ retained_reads = Unbound
    /\ found_barcodes = Unbound
    /\ barcode_counts = Unbound
    /\ fraction_retained = Unbound
    /\ max_cb = Unbound
    /\ min_cb = Unbound
    /\ avg_reads_per_cb = Unbound
    /\ median_reads_per_cb = Unbound
    /\ summary_lines = Unbound
    /\ barcode_plot = Unbound
    /\ barcodes_tsv = Unbound
    /\ report_file = Unbound

NextFilter ==
    \/ LoadBarcodes
    \/ FilterRead
    \/ CloseAndStats
    \/ SummaryLines
    \/ PlotTopBarcodes
    \/ WriteBarcodeCounts
    \/ WriteReport

SpecFilter == InitFilter /\ [][NextFilter]_vars

---------------------------------------------------------------------------
(* Properties *)

\* a record carries both the CB and the XM tag
Tagged(rd) == "CB" \in DOMAIN rd /\ "XM" \in DOMAIN rd

\* number of fetched records that carry both tags
NumTagged ==
    LET tagged == {rd \in BagToSet(fetched) : Tagged(rd)}
    IN BagCardinality([rd \in tagged |-> CopiesIn(rd, fetched)])

\* total_reads(cell) and unique_umis(cell) of the data model, from the mapping
TotalReads(rc, cell) ==
    LET us == {pr[2] : pr \in {q \in Pairs(rc) : q[1] = cell}}
    IN BagCardinality([u \in us |-> CountOf(rc, cell, u)])

UniqueUmis(rc, cell) == Cardinality({q \in Pairs(rc) : q[1] = cell})

\* the entries among the first n of the tally whose barcode has a row
\* labelled exactly "cell" in the table df
RealEntries(rc, df, n) ==
    LET IsReal(e) == <<e.cell, "cell">> \in df
    IN SelectSeq(SubSeq(rc, 1, n), IsReal)

\* the metric loop has started (the three lists exist)
InMetrics == pc \in {"metric_loop", "fit"}

\* entries the metric loop has gone through
Visited == IF pc = "fit" THEN Len(read_counts) ELSE it - 1

\* C1: a fetched record that lacks CB or XM leaves the tally exactly as it
\* was and raises nothing; any other record makes the count of its
\* (barcode, umi) grow by exactly 1 and changes no other entry.
C1_TallyStep ==
    [][(pc = "fetch" /\ fetched' # fetched) =>
          /\ fetched' = fetched (+) SetToBag({read'})
          /\ exception' = "none"
          /\ IF ~Tagged(read')
             THEN read_counts' = read_counts
             ELSE LET b == read'.CB
                      u == read'.XM
                  IN /\ CountOf(read_counts', b, u) = CountOf(read_counts, b, u) + 1
                     /\ Pairs(read_counts') = Pairs(read_counts) \cup {<<b, u>>}
                     /\ \A pr \in Pairs(read_counts') \ {<<b, u>>} :
                           CountOf(read_counts', pr[1], pr[2])
                               = CountOf(read_counts, pr[1], pr[2])]_vars

\* a record without XM has just been skipped, after others were tallied
C1_Witness ==
    /\ pc = "fetch"
    /\ "CB" \in DOMAIN read
    /\ "XM" \notin DOMAIN read
    /\ read_counts # <<>>
    /\ BagCardinality(fetched) = Len(tsv_rows(read_counts, 1)) + 1

\* C2: once the stream is consumed, the reads summed over all tallied
\* barcodes (total_reads_all) are as many as the records that carried both
\* a barcode and a molecule identifier.
C2_TotalReadsAll ==
    /\ pc # "fetch" =>
          BagCardinality([pr \in Pairs(read_counts) |->
                              CountOf(read_counts, pr[1], pr[2])]) = NumTagged
    /\ (script = "vComprehensive" /\ pc \in {"read_bcstats", "metric_loop", "fit"}) =>
          total_reads_all = NumTagged

\* a UMI read twice, and an untagged record in the stream
C2_Witness ==
    /\ script = "vComprehensive"
    /\ pc = "read_bcstats"
    /\ total_reads_all = 2
    /\ Len(tsv) = 2
    /\ BagCardinality(fetched) = 3

\* C3: the cells that contribute a point (and a term of every sum, mean
\* and count) are exactly the tallied barcodes with a table row labelled
\* "cell", in tally order; a barcode with no row, or only rows with another
\* label such as "Cell", contributes nothing and raises nothing.
C3_RealCellFilter ==
    InMetrics =>
        LET F == RealEntries(read_counts, bcstats_df, Visited)
        IN /\ exception = "none"
           /\ Len(reads_per_cell) = Len(F)
           /\ Len(unique_umis_per_cell) = Len(F)
           /\ Len(saturation_indices) = Len(F)
           /\ \A i \in 1..Len(F) :
                 /\ reads_per_cell[i] = TotalReads(read_counts, F[i].cell)
                 /\ unique_umis_per_cell[i] = UniqueUmis(read_counts, F[i].cell)
           /\ pc = "fit" =>
                 /\ filtered_cell_count =
                        Cardinality({b \in Cells(read_counts) : <<b, "cell">> \in bcstats_df})
                 /\ global_total_reads = sum([i \in 1..Len(F) |->
                                                 TotalReads(read_counts, F[i].cell)])

\* of two tallied barcodes one is labelled "cell", the other only "Cell"
C3_Witness ==
    /\ pc = "fit"
    /\ Len(read_counts) = 2
    /\ filtered_cell_count = 1
    /\ \E b \in Cells(read_counts) :
          /\ <<b, "cell">> \notin bcstats_df
          /\ <<b, "Cell">> \in bcstats_df

\* C4: each per-cell saturation is 1 - unique_umis/total_reads of its cell
\* (total_reads the sum of the cell's UMI counts, unique_umis the number of
\* its distinct UMIs) when total_reads > 0, and 0 when total_reads = 0.
C4_PerCellSaturation ==
    InMetrics =>
        LET F == RealEntries(read_counts, bcstats_df, Visited)
        IN /\ Len(saturation_indices) = Len(F)
           /\ \A i \in 1..Len(F) :
                 LET t == TotalReads(read_counts, F[i].cell)
                     u == UniqueUmis(read_counts, F[i].cell)
                     s == saturation_indices[i]
                 IN IF t > 0
                    THEN s[2] > 0 /\ s[1] * t = (t - u) * s[2]
                    ELSE s = <<0, 1>>

\* a real cell with 3 reads of 2 UMIs: saturation 1/3
C4_Witness ==
    /\ pc = "fit"
    /\ reads_per_cell = <<3>>
    /\ unique_umis_per_cell = <<2>>
    /\ saturation_indices = <<<<1, 3>>>>

\* C5: the saturation of every filtered cell with total_reads > 0 lies in
\* [0, 1): it is never negative and never reaches 1.
C5_SaturationRange ==
    InMetrics =>
        \A i \in 1..Len(saturation_indices) :
            reads_per_cell[i] > 0 =>
                /\ saturation_indices[i][2] > 0
                /\ 0 <= saturation_indices[i][1]
                /\ saturation_indices[i][1] < saturation_indices[i][2]

\* two real cells, one without any duplicate (0) and one at 1/2
C5_Witness ==
    /\ pc = "fit"
    /\ Len(saturation_indices) = 2
    /\ <<0, 1>> \in {saturation_indices[1], saturation_indices[2]}
    /\ <<1, 2>> \in {saturation_indices[1], saturation_indices[2]}

\* C6: in every state every stored count is an integer >= 1 and every
\* tallied barcode has 1 <= unique_umis <= total_reads, so that no tallied
\* cell has total_reads = 0.
C6_TallyInvariant ==
    /\ \A i \in 1..Len(read_counts) :
          /\ \A j \in 1..Len(read_counts[i].umis) :
                /\ read_counts[i].umis[j].count \in Nat
                /\ read_counts[i].umis[j].count >= 1
          /\ 1 <= unique_umis_of(read_counts[i].umis)
          /\ unique_umis_of(read_counts[i].umis) <= total_reads_of(read_counts[i].umis)
          /\ total_reads_of(read_counts[i].umis) # 0
          /\ Cardinality(UmiKeys(read_counts[i].umis)) = Len(read_counts[i].umis)
    /\ Cardinality(Cells(read_counts)) = Len(read_counts)

\* a cell with a duplicated UMI beside a cell read once, after a skipped record
C6_Witness ==
    /\ pc = "fetch"
    /\ Len(read_counts) = 2
    /\ \E i \in 1..2 : unique_umis_of(read_counts[i].umis) < total_reads_of(read_counts[i].umis)
    /\ \E i \in 1..2 : unique_umis_of(read_counts[i].umis) = total_reads_of(read_counts[i].umis)

\* sums of unique_umis and of total_reads over the filtered cells, from
\* the tally and the table
FilteredUnique ==
    LET F == RealEntries(read_counts, bcstats_df, Len(read_counts))
    IN sum([i \in 1..Len(F) |-> UniqueUmis(read_counts, F[i].cell)])

FilteredTotal ==
    LET F == RealEntries(read_counts, bcstats_df, Len(read_counts))
    IN sum([i \in 1..Len(F) |-> TotalReads(read_counts, F[i].cell)])

\* C7: global_saturation is 1 - (sum of unique_umis)/(sum of total_reads)
\* over the filtered cells when that sum of reads is > 0, and 0 when it is
\* 0, which includes an empty filtered set.
C7_GlobalSaturation ==
    pc = "fit" =>
        /\ global_total_unique = FilteredUnique
        /\ global_total_reads = FilteredTotal
        /\ IF FilteredTotal > 0
           THEN /\ global_saturation[2] > 0
                /\ global_saturation[1] * FilteredTotal
                       = (FilteredTotal - FilteredUnique) * global_saturation[2]
           ELSE global_saturation = <<0, 1>>
        /\ RealEntries(read_counts, bcstats_df, Len(read_counts)) = <<>>
               => global_saturation = <<0, 1>>

\* two real cells holding 3 reads of 2 UMIs: global saturation 1/3
C7_Witness ==
    /\ pc = "fit"
    /\ filtered_cell_count = 2
    /\ global_total_reads = 3
    /\ global_total_unique = 2
    /\ global_saturation = <<1, 3>>

\* C8: mean_reads is the arithmetic mean of total_reads over the filtered
\* cells, mean_saturation that of their saturations; both are 0 when no
\* cell is filtered, and nothing is raised.
C8_Means ==
    pc = "fit" =>
        LET n == Len(RealEntries(read_counts, bcstats_df, Len(read_counts)))
        IN /\ exception = "none"
           /\ Len(saturation_indices) = n
           /\ IF n = 0
              THEN mean_reads = <<0, 1>> /\ mean_saturation = <<0, 1>>
              ELSE /\ mean_reads[2] > 0
                   /\ mean_reads[1] * n = FilteredTotal * mean_reads[2]
                   /\ mean_saturation[2] > 0
                   /\ RSum(saturation_indices)
                          = Rat(mean_saturation[1] * n, mean_saturation[2])

\* two real cells with 3 reads between them: mean_reads 3/2, mean_saturation 1/4
C8_Witness ==
    /\ pc = "fit"
    /\ filtered_cell_count = 2
    /\ mean_reads = <<3, 2>>
    /\ mean_saturation = <<1, 4>>

\* C9: global_saturation is a function of the two aggregated sums alone
\* and is not mean_saturation: on cells of equal total_reads the two agree,
\* so they differ only on cells of unequal total_reads, and there they do
\* differ (the witness).
C9_GlobalIsNotMean ==
    pc = "fit" =>
        /\ IF sum(reads_per_cell) > 0
           THEN global_saturation[1] * sum(reads_per_cell)
                    = (sum(reads_per_cell) - sum(unique_umis_per_cell))
                          * global_saturation[2]
           ELSE global_saturation = <<0, 1>>
        /\ (\A i, j \in 1..Len(reads_per_cell) : reads_per_cell[i] = reads_per_cell[j])
               => global_saturation = mean_saturation
        /\ global_saturation # mean_saturation
               => \E i, j \in 1..Len(reads_per_cell) : reads_per_cell[i] # reads_per_cell[j]

\* cells of 1 read and of 2 reads of one UMI: global 1/3, mean 1/4
C9_Witness ==
    /\ pc = "fit"
    /\ Len(reads_per_cell) = 2
    /\ reads_per_cell[1] # reads_per_cell[2]
    /\ global_saturation = <<1, 3>>
    /\ mean_saturation = <<1, 4>>
    /\ global_saturation # mean_saturation

\* x rounded to two decimals, in hundredths
Hundredths(x) == (x[1] * 200 + x[2]) \div (2 * x[2])

\* the filtered cells are the scenario's three, in any order
IsScenario ==
    /\ Len(reads_per_cell) = 3
    /\ {<<reads_per_cell[i], unique_umis_per_cell[i]>> : i \in 1..3}
           = {ScenarioPairs[k] : k \in 1..3}

\* C10: three real cells with (total, unique) = (1000,900), (2000,1000),
\* (5000,1100) get the saturations 0.10, 0.50 and 0.78, mean_reads = 8000/3
\* (2666.67 to two decimals) and mean_saturation = 0.46.
C10_Scenario ==
    (pc = "fit" /\ IsScenario) =>
        /\ \A i \in 1..3 :
              /\ reads_per_cell[i] = 1000 => saturation_indices[i] = <<1, 10>>
              /\ reads_per_cell[i] = 2000 => saturation_indices[i] = <<1, 2>>
              /\ reads_per_cell[i] = 5000 => saturation_indices[i] = <<39, 50>>
        /\ mean_reads = <<8000, 3>>
        /\ Hundredths(mean_reads) = 266667
        /\ mean_saturation = <<23, 50>>
        /\ filtered_cell_count = 3

\* the scenario in the order the claim lists it
C10_Witness ==
    /\ pc = "fit"
    /\ reads_per_cell = <<1000, 2000, 5000>>
    /\ unique_umis_per_cell = <<900, 1000, 1100>>
    /\ saturation_indices = <<<<1, 10>>, <<1, 2>>, <<39, 50>>>>

---------------------------------------------------------------------------
(* Order of the records and shards (C11, C12) *)

\* the fetched records that carry both tags
TaggedRecords == {rd \in BagToSet(fetched) : Tagged(rd)}

\* reads and distinct UMIs of barcode b, counted in the bag of fetched records
BagReads(b) ==
    LET rs == {rd \in TaggedRecords : rd.CB = b}
    IN BagCardinality([rd \in rs |-> CopiesIn(rd, fetched)])

BagUmis(b) == Cardinality({rd \in TaggedRecords : rd.CB = b})

BagSaturation(b) == Rat(BagReads(b) - BagUmis(b), BagReads(b))

\* the barcodes of the bag with a row labelled "cell"
BagRealCells == {b \in {rd.CB : rd \in TaggedRecords} : <<b, "cell">> \in bcstats_df}

RECURSIVE BagReadsSum(_)
BagReadsSum(S) ==
    IF S = {} THEN 0
    ELSE LET b == CHOOSE x \in S : TRUE IN BagReads(b) + BagReadsSum(S \ {b})

RECURSIVE BagUmisSum(_)
BagUmisSum(S) ==
    IF S = {} THEN 0
    ELSE LET b == CHOOSE x \in S : TRUE IN BagUmis(b) + BagUmisSum(S \ {b})

RECURSIVE BagSaturationSum(_)
BagSaturationSum(S) ==
    IF S = {} THEN <<0, 1>>
    ELSE LET b == CHOOSE x \in S : TRUE
         IN RAdd(BagSaturation(b), BagSaturationSum(S \ {b}))

RECURSIVE TalliesOf(_)
TalliesOf(B) ==
    IF B = EmptyBag THEN {<<>>}
    ELSE UNION {{tally_read(t, rd) : t \in TalliesOf(B (-) SetToBag({rd}))} :
                   rd \in BagToSet(B)}

\* tally[cell][umi] += n
add_count(rc, cell, umi, n) ==
    LET r == outer_getitem(rc, cell)
    IN [i \in 1..Len(r) |->
            IF r[i].cell # cell THEN r[i]
            ELSE LET d == IF umi \in UmiKeys(r[i].umis) THEN r[i].umis
                          ELSE Append(r[i].umis, [umi |-> umi, count |-> 0])
                 IN [r[i] EXCEPT !.umis =
                        [j \in 1..Len(d) |->
                            IF d[j].umi = umi THEN [d[j] EXCEPT !.count = @ + n]
                            ELSE d[j]]]]

\* merge of two partial tallies: counts summed per (barcode, umi) key
RECURSIVE merge_rows(_, _, _)
merge_rows(rc, rows, k) ==
    IF k > Len(rows) THEN rc
    ELSE merge_rows(add_count(rc, rows[k][1], rows[k][2], rows[k][3]), rows, k + 1)

merge_tallies(t1, t2) == merge_rows(t1, tsv_rows(t2, 1), 1)

\* a tally as the mapping (barcode, umi) -> count
Mapping(rc) == [pr \in Pairs(rc) |-> CountOf(rc, pr[1], pr[2])]

\* C12: for every split of the consumed stream into two or three shards,
\* each tallied by its own builder in any order, merging the shard tallies
\* by summing counts per (barcode, umi) gives the mapping of the tally of
\* the whole stream, in either merge order and either grouping.
C12_ShardMerge ==
    pc = "write_tsv" =>
        \A B1 \in SubBag(fetched) :
            \A B2 \in SubBag(fetched (-) B1) :
                LET B3 == (fetched (-) B1) (-) B2
                IN \A t1 \in TalliesOf(B1), t2 \in TalliesOf(B2), t3 \in TalliesOf(B3) :
                      /\ Mapping(merge_tallies(merge_tallies(t1, t2), t3))
                             = Mapping(read_counts)
                      /\ Mapping(merge_tallies(t1, merge_tallies(t2, t3)))
                             = Mapping(read_counts)
                      /\ Mapping(merge_tallies(t2, t1)) = Mapping(merge_tallies(t1, t2))

\* three reads of one (barcode, umi): every shard holds some of them
C12_Witness ==
    /\ pc = "write_tsv"
    /\ BagCardinality(fetched) = 3
    /\ Len(read_counts) = 1
    /\ read_counts[1].umis = <<[umi |-> 1, count |-> 3]>>

----------------------------------------------------------------------------
(* The curve fitter's failures (C13 - C16) *)

\* main() has left the curve fitter: it raised, or a later stage is next
FitterLeft == pc \in {"aborted", "r_squared", "grid", "knee", "projection", "plot", "done"}

\* nothing after the fit is bound: no parameters, no grid, no knee, no
\* projection, no figure
NothingFitted ==
    /\ Vmax = Unbound
    /\ Km = Unbound
    /\ sigma = Unbound
    /\ r_squared = Unbound
    /\ x_fit = Unbound
    /\ x_coef_indices = Unbound
    /\ x_fit_trim = Unbound
    /\ extra_per_cell = Unbound
    /\ total_extra_reads_required = Unbound
    /\ knee_x = Unbound
    /\ plot_file = Unbound

Degenerate(xs) == \A i, j \in 1..Len(xs) : xs[i] = xs[j]

\* C14 as stated: 2 or more points that share one reads-per-cell value make
\* the fitter fail with InsufficientDataError; it returns no parameters, and
\* knee search and projection do not run
C14_DegenerateX ==
    (FitterLeft /\ Len(x_data) >= 2 /\ Degenerate(x_data))
        => /\ exception = "InsufficientDataError"
           /\ NothingFitted

\* a line of stdout, or the saved figure, carries one of the texts
Reported(texts) ==
    \/ \E i \in 1..Len(stdout) : stdout[i].text \in texts
    \/ plot_file # Unbound

\* the summary metrics are what the summary computed from the metric lists
SummaryIntact ==
    /\ mean_reads = mean_or_zero(as_floats(reads_per_cell))
    /\ mean_saturation = mean_or_zero(saturation_indices)
    /\ global_saturation = global_saturation_value
    /\ filtered_cell_count = Len(reads_per_cell)

\* C15 as stated: in every run whose curve fitting fails, the tally file has
\* been written, mean reads, the filtered-cell count, mean saturation and
\* global saturation have been computed and reported and are unchanged, and no
\* Vmax, Km, knee or projection is emitted
C15_ReportedBeforeFailure ==
    (pc = "aborted" /\ Vmax = Unbound)
        => /\ tsv = <<<<"cell_barcode", "UMI", "Count">>>> \o tsv_rows(read_counts, 1)
           /\ SummaryIntact
           /\ Reported({"Average reads per real cell"})
           /\ Reported({"Total filtered (real) cells"})
           /\ Reported({"Avg saturation index"})
           /\ Reported({"Global Saturation"})
           /\ NothingFitted

\* what of C15 the code does: the tally file and the summary are intact, mean
\* reads and the cell count are printed, nothing of the fit is emitted
C15_PrintedBeforeFailure ==
    (pc = "aborted" /\ Vmax = Unbound)
        => /\ tsv = <<<<"cell_barcode", "UMI", "Count">>>> \o tsv_rows(read_counts, 1)
           /\ SummaryIntact
           /\ Reported({"Average reads per real cell"})
           /\ Reported({"Total filtered (real) cells"})
           /\ NothingFitted

\* the optimizer gave up: curve_fit raised RuntimeError
NotConverged == pc = "aborted" /\ exception = "RuntimeError"

\* the fit came back with a covariance that is not finite
SingularCovariance ==
    /\ sigma # Unbound
    /\ (~IsFinite(sigma[1]) \/ ~IsFinite(sigma[2]))

\* C16 as stated: when the optimizer does not converge, or converges with a
\* non-finite covariance, the fitter fails with FitConvergenceError; no fit
\* result, sigma, R-squared, knee or projection is derived
C16_FitConvergenceError ==
    (NotConverged \/ SingularCovariance)
        => /\ exception = "FitConvergenceError"
           /\ NothingFitted

----------------------------------------------------------------------------
(* The knee and the trimmed curve (C17 - C20) *)

\* the knee search has run
KneeSearched == pc \in {"projection", "plot", "done"} \/ (pc = "aborted" /\ x_fit # Unbound)

\* the knee search has found a grid point
KneeFound == KneeSearched /\ Len(x_coef_indices) > 0

\* 0.9 * Vmax
Target == RMul(Vmax, KneeFraction)

\* model(x) >= 0.9 * Vmax
MeetsTarget(x) == RGe(MM(x, Vmax, Km), Target)

\* x_fit is a grid of GridPoints evenly spaced points from the least to the
\* greatest observed reads-per-cell value
EvenGrid ==
    /\ Len(x_fit) = GridPoints
    /\ x_fit[1] = RInt(np_min(x_data))
    /\ x_fit[GridPoints] = RInt(np_max(x_data))
    /\ \A i \in 1..(GridPoints - 2) :
          RSub(x_fit[i + 1], x_fit[i]) = RSub(x_fit[i + 2], x_fit[i + 1])

\* C17: over the 1,000-point evenly spaced grid from min to max of the observed
\* reads, knee_x is the grid value at the smallest index whose model value is
\* at least 0.9 * Vmax; every grid point before it is below 0.9 * Vmax
C17_KneeDefinition ==
    (pc = "done" /\ KneeFound)
        => /\ EvenGrid
           /\ \E i \in 1..GridPoints :
                 /\ knee_x = x_fit[i]
                 /\ MeetsTarget(x_fit[i])
                 /\ \A j \in 1..(i - 1) : ~MeetsTarget(x_fit[j])

\* a run whose knee lies inside the grid
C17_Witness ==
    /\ pc = "done"
    /\ KneeFound
    /\ x_coef_indices[1] > 0
    /\ knee_x # x_fit[1]
    /\ knee_x # x_fit[GridPoints]

\* C18, as the code has it: when a knee is found the trimmed grid is the grid
\* points strictly before the knee's index.  It starts at the first grid point
\* when it has one, it stops one grid point short of knee_x, and it is empty
\* when the very first grid point meets the 90% threshold (VLOGdatatransform
\* then prints a warning and takes 0 for x_max_val)
C18_TrimBeforeKnee ==
    KneeFound
        => LET k == x_coef_indices[1]
           IN /\ Len(x_fit_trim) = k
              /\ \A i \in 1..k : x_fit_trim[i] = x_fit[i] /\ x_fit_trim[i] # item(x_fit, k)
              /\ y_fit_trim = SubSeq(y_fit, 1, k)
              /\ (x_fit_trim = <<>>) <=> MeetsTarget(x_fit[1])
              /\ pc = "done" => knee_x = item(x_fit, k)
              /\ (script = "VLOGdatatransform" /\ k = 0)
                    => /\ x_max_val = RInt(0)
                       /\ stdout[Len(stdout)].text
                              = "Warning: x_fit_trim is empty, using default value"

\* a finished run whose first grid point already meets the threshold
C18_Witness ==
    /\ pc = "done"
    /\ KneeFound
    /\ x_coef_indices[1] = 0
    /\ x_fit_trim = <<>>
    /\ ~Degenerate(x_data)

\* C18 as stated: when a knee is found the trimmed grid starts at the first
\* grid point, ends with knee_x itself and is never empty
C18_ClosedRange ==
    (pc = "done" /\ KneeFound)
        => /\ x_fit_trim # <<>>
           /\ x_fit_trim[1] = x_fit[1]
           /\ x_fit_trim[Len(x_fit_trim)] = knee_x

\* C19 as stated: when no grid point reaches 0.9 * Vmax both scripts complete
\* normally: no error is raised, the trimmed grid is the full 1,000-point
\* grid, and knee_x is NaN
C19_NoKnee ==
    (KneeSearched /\ Len(x_coef_indices) = 0)
        => /\ exception = "none"
           /\ pc # "aborted"
           /\ x_fit_trim = x_fit
           /\ Len(x_fit_trim) = GridPoints
           /\ pc = "done" => knee_x = NaN

\* 9 * Km
NineKm == RMul(RInt(9), Km)

\* the distance of two neighbouring grid points
GridStep == Rat(np_max(x_data) - np_min(x_data), GridPoints - 1)

\* C20: for Vmax > 0 and Km > 0 with min(x) < 9 * Km <= max(x), the knee_x found
\* on the grid satisfies 9 * Km <= knee_x < 9 * Km + one grid step
C20_KneeNearNineKm ==
    (/\ pc = "done"
     /\ Vmax[1] > 0
     /\ Km[1] > 0
     /\ ~RGe(RInt(np_min(x_data)), NineKm)
     /\ RGe(RInt(np_max(x_data)), NineKm))
        => /\ Len(x_coef_indices) > 0
           /\ RGe(knee_x, NineKm)
           /\ ~RGe(knee_x, RAdd(NineKm, GridStep))

\* a finished run with 9 * Km inside the observed range, off the grid
C20_Witness ==
    /\ pc = "done"
    /\ Vmax[1] > 0
    /\ Km[1] > 0
    /\ ~RGe(RInt(np_min(x_data)), NineKm)
    /\ RGe(RInt(np_max(x_data)), NineKm)
    /\ knee_x # NineKm
    /\ knee_x # Unbound

----------------------------------------------------------------------------
(* The depth projection (C21, C22, C27) *)

\* vComprehensive has run its projection
Projected == script = "vComprehensive" /\ pc \in {"plot", "done"}

\* C21: extra_per_cell is target_reads - mean_reads with target_reads = 10,000
\* when that is positive and 0 when mean_reads >= 10,000, so never negative;
\* extra_reads_filtered is extra_per_cell times the number of filtered cells
C21_DepthProjection ==
    Projected
        => /\ target_reads = 10000
           /\ extra_per_cell[1] >= 0
           /\ IF RGe(mean_reads, RInt(10000))
              THEN extra_per_cell = RInt(0)
              ELSE RAdd(extra_per_cell, mean_reads) = RInt(10000)
           /\ extra_reads_filtered
                  = Rat(extra_per_cell[1] * filtered_cell_count, extra_per_cell[2])

\* a projected run whose cells are deeper than the target on average
C21_Witness ==
    /\ Projected
    /\ ~RGe(RInt(target_reads), mean_reads)
    /\ extra_per_cell = RInt(0)
    /\ filtered_cell_count = 2

\* the summary has been computed
Summarised ==
    pc \in {"fit", "arrays", "curve_fit", "r_squared", "grid", "knee", "projection",
            "plot", "done", "aborted"}

\* reads of the tally entries whose barcode is a real cell
RealReads ==
    sum([i \in 1..Len(read_counts) |->
            IF read_counts[i].cell \in real_barcodes
            THEN sum(values(read_counts[i].umis)) ELSE 0])

\* C22: fraction is the reads of the filtered cells over the reads of all
\* tallied barcodes, 0 when no read was tallied; total_extra_reads_required is
\* extra_reads_filtered / fraction when fraction > 0 and 0 when fraction = 0;
\* the projection raises no division by zero
C22_FractionGuards ==
    /\ (script = "vComprehensive" /\ Summarised)
          => /\ total_reads_all = BagCardinality(fetched)
             /\ IF BagCardinality(fetched) = 0
                THEN fraction_filtered = RInt(0)
                ELSE fraction_filtered = Rat(RealReads, BagCardinality(fetched))
    /\ Projected
          => /\ IsFinite(total_extra_reads_required)
             /\ IF fraction_filtered[1] > 0
                THEN RMul(total_extra_reads_required, fraction_filtered)
                         = extra_reads_filtered
                ELSE total_extra_reads_required = RInt(0)
    /\ exception # "ZeroDivisionError"

\* a projection that divides by a fraction below 1
C22_Witness ==
    /\ Projected
    /\ fraction_filtered[1] > 0
    /\ fraction_filtered # RInt(1)
    /\ extra_reads_filtered[1] > 0
    /\ total_extra_reads_required # extra_reads_filtered

\* C27: fraction_filtered is 0 only when there is no filtered cell, and then
\* extra_per_cell times the cell count is 0 as well, so the default 0 of
\* total_extra_reads_required never replaces a positive extra_reads_filtered;
\* a fraction above 0 lies in (0, 1] and then total_extra_reads_required is at
\* least extra_reads_filtered
C27_FractionRange ==
    /\ (script = "vComprehensive" /\ Summarised)
          => /\ fraction_filtered[1] >= 0
             /\ RGe(RInt(1), fraction_filtered)
             /\ fraction_filtered = RInt(0)
                   => /\ filtered_cell_count = 0
                      /\ RMul(RSub(RInt(target_reads), mean_reads),
                              RInt(filtered_cell_count)) = RInt(0)
    /\ Projected
          => /\ extra_reads_filtered[1] > 0 => fraction_filtered[1] > 0
             /\ fraction_filtered[1] > 0
                   => RGe(total_extra_reads_required, extra_reads_filtered)

\* a projection for two filtered cells that hold part of the reads
C27_Witness ==
    /\ Projected
    /\ filtered_cell_count = 2
    /\ ~RGe(fraction_filtered, RInt(1))
    /\ ~RGe(extra_reads_filtered, total_extra_reads_required)

----------------------------------------------------------------------------
(* The tally file and the frozen tally (C23, C25) *)

\* the tally file has been written
TsvWritten == pc \notin {"fetch", "write_tsv"}

\* the rows of the tally file after its header
DataRows == Tail(tsv)

\* C23: the tally file is the header row (cell_barcode, UMI, Count) followed
\* by exactly one row per distinct (barcode, umi) pair that was tallied,
\* carrying the number of records of that pair: no pair twice, none missing,
\* and the Count column sums to the number of tallied records
C23_TallyFile ==
    TsvWritten
        => /\ tsv[1] = <<"cell_barcode", "UMI", "Count">>
           /\ \A i, j \in 1..Len(DataRows) :
                 (DataRows[i][1] = DataRows[j][1] /\ DataRows[i][2] = DataRows[j][2])
                     => i = j
           /\ \A rd \in TaggedRecords :
                 \E i \in 1..Len(DataRows) :
                     DataRows[i] = <<rd.CB, rd.XM, CopiesIn(rd, fetched)>>
           /\ Len(DataRows) = Cardinality(TaggedRecords)
           /\ sum([i \in 1..Len(DataRows) |-> DataRows[i][3]]) = NumTagged

\* a written file with two rows of one cell, one of them with a count of 2
C23_Witness ==
    /\ TsvWritten
    /\ Len(DataRows) = 2
    /\ DataRows[1][1] = DataRows[2][1]
    /\ DataRows[2][3] = 2
    /\ NumTagged = 3

\* C25: once the stream is exhausted the tally is never changed again: writing
\* the file, summing total_reads_all, filtering against the classification
\* table and computing the metrics add no barcode, add no UMI and alter no
\* count, also for table barcodes the tally does not hold
C25_TallyFrozen ==
    [][pc # "fetch"
          => /\ read_counts' = read_counts
             /\ Cells(read_counts') = Cells(read_counts)
             /\ Pairs(read_counts') = Pairs(read_counts)]_vars

\* the metrics are done for a table with a real cell the tally never saw
C25_Witness ==
    /\ pc = "fit"
    /\ read_counts # <<>>
    /\ \E b \in real_barcodes : b \notin Cells(read_counts)
    /\ \E b \in real_barcodes : b \in Cells(read_counts)

----------------------------------------------------------------------------
(* R-squared without variance and the confidence band (C24, C26) *)

\* r_squared has been computed
RSquaredDone ==
    \/ pc \in {"grid", "knee", "projection", "plot", "done"}
    \/ (pc = "aborted" /\ r_squared # Unbound)

\* all observed saturation values are the same: ss_tot = 0
NoVariance == \A i, j \in 1..Len(y_data) : y_data[i] = y_data[j]

np_le(x, y) ==
    /\ x # NaN
    /\ y # NaN
    /\ IF IsFinite(x) \/ IsFinite(y) THEN RGe(y, x) ELSE x[1] <= y[1]

\* the figure is written, so both bounds of the band are computed
BandDrawn == pc = "done" /\ bound_upper # Unbound /\ bound_lower # Unbound

\* the fitted curve lies inside the band at the i-th point of the trimmed domain
Encloses(i) ==
    LET model == MM(x_fit_trim[i], Vmax, Km)
    IN  np_le(bound_lower[i], model) /\ np_le(model, bound_upper[i])

\* sigma_Vmax * (Km + x) >= Vmax * sigma_Km at the i-th point of the trimmed domain
WideEnough(i) ==
    RGe(RMul(sigma[1], RAdd(Km, x_fit_trim[i])), RMul(Vmax, sigma[2]))

\* C26 (as stated): over the trimmed domain the band encloses the fitted
\* curve, bound_lower <= model <= bound_upper at every point.
C26_BandEncloses ==
    BandDrawn => \A i \in 1..Len(x_fit_trim) : Encloses(i)

\* C26 (amended): the bounds are the model evaluated at
\* (Vmax + sigma_Vmax, Km + sigma_Km) and (Vmax - sigma_Vmax, Km - sigma_Km)
\* over the trimmed domain. With finite standard errors and positive
\* denominators the band encloses the curve at x exactly when
\* sigma_Vmax * (Km + x) >= Vmax * sigma_Km, and otherwise the curve lies
\* outside both bounds; with infinite standard errors both bounds are nan
\* and enclose nothing.
C26_BandCondition ==
    BandDrawn =>
        /\ Len(bound_upper) = Len(x_fit_trim)
        /\ Len(bound_lower) = Len(x_fit_trim)
        /\ \A i \in 1..Len(x_fit_trim) :
              LET x == x_fit_trim[i]
                  up == RAdd(RAdd(Km, sigma[2]), x)
                  lo == RAdd(RSub(Km, sigma[2]), x)
              IN  /\ (~SingularCovariance /\ x[1] > 0 /\ RAdd(Km, x)[1] > 0 /\ lo[1] > 0)
                        => /\ bound_upper[i] = RDiv(RMul(RAdd(Vmax, sigma[1]), x), up)
                           /\ bound_lower[i] = RDiv(RMul(RSub(Vmax, sigma[1]), x), lo)
                           /\ Encloses(i) <=> WideEnough(i)
                           /\ ~WideEnough(i)
                                 => /\ ~np_le(MM(x, Vmax, Km), bound_upper[i])
                                    /\ ~np_le(bound_lower[i], MM(x, Vmax, Km))
                  /\ SingularCovariance
                        => /\ bound_upper[i] = NaN
                           /\ bound_lower[i] = NaN
                           /\ ~Encloses(i)

C26_Witness ==
    /\ BandDrawn
    /\ sigma = <<Rat(1, 10), RInt(1)>>
    /\ Len(x_fit_trim) > 1
    /\ ~Encloses(1)
    /\ ~Encloses(Len(x_fit_trim))

---------------------------------------------------------------------------
(* The two scripts on the tally and metric stages (C28) *)

\* tally entries of the real cells, in tally order
RealTally == RealEntries(read_counts, bcstats_df, Len(read_counts))

\* exact mean of the floats in saturation_indices
ExactMeanSaturation == RDivInt(RSum(float_saturations), Len(float_saturations))

\* |x - y|
RDistance(x, y) == LET d == RSub(x, y) IN IF d[1] < 0 THEN <<-d[1], d[2]>> ELSE d

\* x is within Len(xs) rounding errors of the exact mean m of xs:
\* |x - m| * (2^Precision - n) <= n * m
WithinRounding(x, m, n) ==
    RGe(RMul(RInt(n), m), RMul(RInt(Pow2(Precision) - n), RDistance(x, m)))

\* C28 (as stated): both scripts produce the same mean_saturation - what
\* this run computed is what the other script's expression gives on the
\* same list
C28_SameMeanSaturation ==
    (pc = "fit" /\ saturation_indices # <<>>)
        => /\ mean_saturation = np_mean_float(float_saturations)
           /\ mean_saturation = py_mean_float(float_saturations)

\* C28 (amended): on the tally and metric stages the tally file, the ordered
\* (reads, saturation) points, mean_reads, global_saturation and the
\* filtered-cell count are functions of the input alone, the same in both
\* scripts; mean_saturation is the mean of the same list in both scripts but
\* summed in a different order, so it is 0 without cells and otherwise
\* within rounding error of the exact mean, not necessarily the same float.
C28_VariantsAgree ==
    /\ TsvWritten
          => tsv = <<<<"cell_barcode", "UMI", "Count">>>> \o tsv_rows(read_counts, 1)
    /\ pc = "fit"
          => LET n == Len(RealTally)
             IN  /\ reads_per_cell = [i \in 1..n |-> total_reads_of(RealTally[i].umis)]
                 /\ unique_umis_per_cell = [i \in 1..n |-> unique_umis_of(RealTally[i].umis)]
                 /\ saturation_indices =
                        [i \in 1..n |-> saturation_of(unique_umis_of(RealTally[i].umis),
                                                      total_reads_of(RealTally[i].umis))]
                 /\ filtered_cell_count = n
                 /\ mean_reads = IF n = 0 THEN RInt(0) ELSE py_mean_int(reads_per_cell)
                 /\ mean_reads = IF n = 0 THEN RInt(0)
                                 ELSE np_mean_float(as_floats(reads_per_cell))
                 /\ global_saturation =
                        float_saturation(sum(unique_umis_per_cell), sum(reads_per_cell))
                 /\ n = 0 => mean_saturation = RInt(0)
                 /\ n > 0 => WithinRounding(mean_saturation, ExactMeanSaturation, n)

C28_Witness ==
    /\ pc = "fit"
    /\ script = "VLOGdatatransform"
    /\ filtered_cell_count = MeanCells
    /\ mean_saturation = py_mean_float(float_saturations)
    /\ mean_saturation # np_mean_float(float_saturations)
    /\ mean_reads = np_mean_float(as_floats(reads_per_cell))

---------------------------------------------------------------------------
(* filter_bam_by_barcode (C29, C30) *)

Bases == {"A", "C", "G", "T", "N"}

\* b is the complement of a: A-T and C-G pair, N and every other letter give N
Complementary(a, b) ==
    \/ <<a, b>> \in {<<"A", "T">>, <<"T", "A">>, <<"C", "G">>, <<"G", "C">>, <<"N", "N">>}
    \/ (a \notin Bases /\ b = "N")

\* t is s read backwards with every letter complemented
IsReverseComplement(s, t) ==
    /\ Len(t) = Len(s)
    /\ \A i \in 1..Len(s) : Complementary(s[i], t[Len(s) + 1 - i])

\* the loop of filter_bam_by_barcode has started
FilterLoopStarted ==
    pc \in {"filter_loop", "filter_summary", "filter_plot", "filter_counts",
            "filter_report", "filter_done", "filter_aborted"}

\* the read has a CB tag and the tag or its reverse complement is listed
Listed(rd) ==
    /\ "CB" \in DOMAIN rd
    /\ \/ rd.CB \in barcodes
       \/ \E t \in barcodes : IsReverseComplement(rd.CB, t)

\* the list barcode a listed read is credited to: the tag itself first
CreditedTo(rd) ==
    IF rd.CB \in barcodes THEN rd.CB
    ELSE CHOOSE t \in barcodes : IsReverseComplement(rd.CB, t)

\* input reads credited to list barcode b
ReadsCreditedTo(b) ==
    Cardinality({i \in 1..Len(in_bam) : Listed(in_bam[i]) /\ CreditedTo(in_bam[i]) = b})

\* C29: every input read increments total_reads; a read is written to the
\* output and counted iff it has a CB tag and the CB or its reverse
\* complement is in the barcode list, a direct match first, the count going
\* to the matched list barcode; retained_reads <= total_reads, the counts
\* sum to retained_reads, and found_barcodes is the key set of
\* barcode_counts and a subset of the barcode list.
C29_FilterInvariant ==
    FilterLoopStarted
        => /\ bam_total_reads = Len(in_bam)
           /\ out_bam = SelectSeq(in_bam, Listed)
           /\ retained_reads = Len(out_bam)
           /\ retained_reads <= bam_total_reads
           /\ \A i, j \in 1..Len(barcode_counts) :
                 barcode_counts[i].barcode = barcode_counts[j].barcode => i = j
           /\ \A i \in 1..Len(barcode_counts) :
                 /\ barcode_counts[i].barcode \in barcodes
                 /\ barcode_counts[i].count > 0
                 /\ barcode_counts[i].count = ReadsCreditedTo(barcode_counts[i].barcode)
           /\ \A b \in barcodes :
                 ReadsCreditedTo(b) > 0 => key_index(barcode_counts, b) > 0
           /\ sum(count_values(barcode_counts)) = retained_reads
           /\ found_barcodes = {barcode_counts[i].barcode : i \in 1..Len(barcode_counts)}
           /\ found_barcodes \subseteq barcodes

\* a reverse-complement match, a read without tag and a direct match
C29_Witness ==
    /\ pc = "filter_loop"
    /\ barcodes = {<<"A", "C">>, <<"A", "N">>}
    /\ in_bam = <<[CB |-> <<"G", "T">>], <<>>, [CB |-> <<"A", "C">>]>>
    /\ out_bam = <<[CB |-> <<"G", "T">>], [CB |-> <<"A", "C">>]>>
    /\ bam_total_reads = 3
    /\ retained_reads = 2
    /\ barcode_counts = <<[barcode |-> <<"A", "C">>, count |-> 2]>>

\* filter_bam_by_barcode has returned or raised
FilterEnded == pc \in {"filter_done", "filter_aborted"}

\* C30 as stated: when no read is retained the function still completes
\* without error, reports fraction retained 0, average 0 and 'NA' for the
\* barcodes with most and fewest reads, and writes the report file and the
\* barcode-count table.
C30_CompletesWithoutRetained ==
    (FilterEnded /\ retained_reads = 0)
        => /\ pc = "filter_done"
           /\ exception = "none"
           /\ report_file # Unbound
           /\ barcodes_tsv # Unbound
           /\ \E i \in 1..Len(report_file.lines) :
                 report_file.lines[i] = <<"Fraction retained: ", RInt(0)>>
           /\ \E i \in 1..Len(report_file.lines) :
                 report_file.lines[i] = <<"Average reads per retained barcode: ", RInt(0)>>
           /\ \E i \in 1..Len(report_file.lines) :
                 report_file.lines[i] = <<"Barcode with most reads: ", "NA", " (", 0, " reads)">>
           /\ \E i \in 1..Len(report_file.lines) :
                 report_file.lines[i] = <<"Barcode with fewest reads: ", "NA", " (", 0, " reads)">>

============================================================================
